---- MODULE Spec2Model ----
(***************************************************************************)
(* A model of the EPUB package assembly engine of narou-epub: the          *)
(* identifier allocator (src/src/epub/id.rs), the calendar converter       *)
(* (src/src/epub/time.rs) and the package model with its navigation,       *)
(* manifest and spine builders (src/src/epub/mod.rs).                      *)
(*                                                                         *)
(* Text is modelled as a sequence of one-character strings where the code  *)
(* indexes or slices it (the timestamp), and as a TLA+ string where the    *)
(* code only appends to it (rendered identifiers).                         *)
(***************************************************************************)
EXTENDS Integers, Sequences, FiniteSets, TLC

VARIABLES
    \* IdIter<T> (id.rs): the policy T, the counter, and every string issued so far
    policy, number, issued,
    \* Time::from_str (time.rs): the input text, what from_str returned for it,
    \* and what Display printed for the returned Time
    s, parsed, shown,
    \* one build (mod.rs): the Epub, how far the build is, and the add_content
    \* and add_resource calls made on it so far
    epub, stage, calls,
    \* the argument of the last set_direction call made on the Epub, if any
    directed,
    \* one call of make_epub (main.rs): its position and locals, the static
    \* INTERRUPTED, its TemporaryFile value, and the files of the directory
    make, INTERRUPTED, temporary, files,
    \* one Tokens<T> (json/lexer.rs) over one input
    lexer

idVars == <<policy, number, issued>>
timeVars == <<s, parsed, shown>>
epubVars == <<epub, stage, calls, directed>>
mainVars == <<make, INTERRUPTED, temporary, files>>
jsonVars == <<lexer>>
vars == <<policy, number, issued, s, parsed, shown, epub, stage, calls, directed,
          make, INTERRUPTED, temporary, files, lexer>>

\* a variable group that a specification does not use stays at this value
Idle == "idle"
IdIdle == policy = Idle /\ number = 0 /\ issued = {}
\* from_str has not been called / nothing has been printed
NoResult == [tag |-> "none"]
TimeIdle == s = <<>> /\ parsed = NoResult /\ shown = <<>>
EpubIdle == epub = <<>> /\ stage = Idle /\ calls = <<>> /\ directed = <<>>
MainIdle ==
    /\ make = [pc |-> Idle]
    /\ INTERRUPTED = FALSE
    /\ temporary = [state |-> Idle]
    /\ files = [state |-> Idle]
JsonIdle == lexer = [pc |-> Idle]

(***************************************************************************)
(* Identifier allocator, src/src/epub/id.rs                                *)
(***************************************************************************)

\* how many identifiers one iterator is asked for
MaxIds == 3300

Digits == <<"0", "1", "2", "3", "4", "5", "6", "7", "8", "9">>
Upper == <<"A", "B", "C", "D", "E", "F", "G", "H", "I", "J", "K", "L", "M",
           "N", "O", "P", "Q", "R", "S", "T", "U", "V", "W", "X", "Y", "Z">>
Lower == <<"a", "b", "c", "d", "e", "f", "g", "h", "i", "j", "k", "l", "m",
           "n", "o", "p", "q", "r", "s", "t", "u", "v", "w", "x", "y", "z">>

\* a first alphabet that is the continuation alphabet, digits included (the
\* mutant of C18)
FIRST_LETTER_with_digits(T) ==
    IF T = "ItemId" THEN Digits \o Upper \o Lower ELSE Digits \o Lower

\* impl IdPolicy for ItemId / NameId: the two alphabets of each policy
FIRST_LETTER(T) ==
    IF T = "ItemId" THEN Upper \o Lower ELSE Digits \o Lower

LETTER(T) ==
    IF T = "ItemId" THEN Digits \o Upper \o Lower ELSE Digits \o Lower

\* the divisor of the continuation loop: the literal of `n /= 62`
ContinuationDivisor == 62

\* the `while n != 0` loop of Display for Id<T>; alphabets are 0-indexed in the code
RECURSIVE IdTail(_, _)
IdTail(T, n) ==
    IF n = 0 THEN ""
    ELSE LETTER(T)[(n % Len(LETTER(T))) + 1] \o IdTail(T, n \div ContinuationDivisor)

\* a Display that divides by the size of the continuation alphabet after the
\* first character (the mutant of C17)
IdFmt_divided_by_letter(T, n) ==
    FIRST_LETTER(T)[(n % Len(FIRST_LETTER(T))) + 1]
        \o IdTail(T, n \div Len(LETTER(T)))

\* impl Display for Id<T>
IdFmt(T, n) ==
    FIRST_LETTER(T)[(n % Len(FIRST_LETTER(T))) + 1]
        \o IdTail(T, n \div Len(FIRST_LETTER(T)))

\* Display for Id<T> as the characters it hands to write_char one by one: the
\* first character, then those of the `while n != 0` loop
RECURSIVE IdTailChars(_, _)
IdTailChars(T, n) ==
    IF n = 0 THEN <<>>
    ELSE <<LETTER(T)[(n % Len(LETTER(T))) + 1]>>
            \o IdTailChars(T, n \div ContinuationDivisor)

IdChars(T, n) ==
    <<FIRST_LETTER(T)[(n % Len(FIRST_LETTER(T))) + 1]>>
        \o IdTailChars(T, n \div Len(FIRST_LETTER(T)))

\* an iterator that hands out its counter without counting up (the mutant of C2)
IdIter_next_stuck(n) == [id |-> n, number |-> n]

\* Iterator::next of IdIter (id.rs) on the counter n: the Id handed out and the
\* counter after the call
IdIter_next(n) == [id |-> n, number |-> n + 1]

Policies == {"NameId", "ItemId"}

\* IdIter::new, for either policy
IdIterNew ==
    /\ policy \in Policies
    /\ number = 0
    /\ issued = {}

\* Iterator::next for IdIter<T>: hand out Id(number), then count up; the caller
\* renders the Id at once (format!("{}.xhtml", ..) in main.rs)
IdIterNext ==
    /\ number < MaxIds
    /\ number' = IdIter_next(number).number
    /\ issued' = issued \cup {IdFmt(policy, IdIter_next(number).id)}
    /\ UNCHANGED policy

InitId == IdIterNew /\ TimeIdle /\ EpubIdle /\ MainIdle /\ JsonIdle
NextId == IdIterNext /\ UNCHANGED <<timeVars, epubVars, mainVars, jsonVars>>
SpecId == InitId /\ [][NextId]_vars

(***************************************************************************)
(* Calendar converter, src/src/epub/time.rs                                *)
(***************************************************************************)

\* the results of from_str: Ok(Time), Err(Error), or a panic of the thread (an
\* index or a slice out of range)
Ok(t) == [tag |-> "Ok", time |-> t]
Err(e) == [tag |-> "Err", err |-> e]
Panic == [tag |-> "panic"]

\* u8::is_ascii_graphic, over the characters the inputs are made of: every
\* printable character but the space
is_ascii_graphic(c) == c # " "

DigitChars == {Digits[i] : i \in 1..Len(Digits)}

DigitValue(c) == (CHOOSE i \in 1..Len(Digits) : Digits[i] = c) - 1

RECURSIVE DecimalValue(_)
DecimalValue(str) ==
    IF str = <<>> THEN 0
    ELSE DecimalValue(SubSeq(str, 1, Len(str) - 1)) * 10 + DigitValue(str[Len(str)])

\* str::parse::<u16>() and ::<u8>() (core::num, unsigned): no text and a lone
\* sign are errors, one leading '+' is skipped, '-' is no sign of an unsigned
\* type, every other character must be a digit, and the value must fit
ParseUnsigned(str, max) ==
    IF str = <<>> THEN [ok |-> FALSE]
    ELSE IF Len(str) = 1 /\ str[1] \in {"+", "-"} THEN [ok |-> FALSE]
    ELSE LET digits == IF str[1] = "+" THEN Tail(str) ELSE str
         IN  IF \E i \in 1..Len(digits) : digits[i] \notin DigitChars
             THEN [ok |-> FALSE]
             ELSE IF DecimalValue(digits) > max THEN [ok |-> FALSE]
             ELSE [ok |-> TRUE, v |-> DecimalValue(digits)]

\* a leap-year rule without the century exception (the mutant of C6)
is_leap_year_julian(year) == year % 4 = 0

is_leap_year(year) ==
    year % 400 = 0 \/ (year % 4 = 0 /\ year % 100 # 0)

DAYS_IN_MONTH == <<31, 28, 31, 30, 31, 30, 31, 31, 30, 31, 30, 31>>

Bit(b) == IF b THEN 1 ELSE 0

\* the `else` arm of the day borrow: the last day of the previous month
PrevMonthDays(year, month) ==
    DAYS_IN_MONTH[((month + 10) % 12) + 1] + Bit(is_leap_year(year) /\ month - 1 = 2)

\* Time::new: the range checks on the local value, then nine hours back with
\* the borrow carried through day, month and year (DAYS_IN_MONTH is 0-indexed
\* in the code)
Time_new(year, month, day, hour, minute, second) ==
    IF /\ year \in 1970..9999
       /\ month \in 1..12
       /\ day \in 1..(DAYS_IN_MONTH[month] + Bit(is_leap_year(year) /\ month = 2))
       /\ hour \in 0..23
       /\ minute \in 0..59
       /\ second \in 0..(59 + Bit(hour = 23 /\ minute = 59))
    THEN LET hour2 == IF hour >= 9 THEN hour - 9 ELSE hour + 15
             bf1 == IF hour >= 9 THEN 0 ELSE 1
             day2 == IF day > bf1 THEN day - bf1
                     ELSE PrevMonthDays(year, month)
             bf2 == IF day > bf1 THEN 0 ELSE 1
             month2 == IF month > bf2 THEN month - bf2 ELSE 12
             bf3 == IF month > bf2 THEN 0 ELSE 1
         IN  Ok([year |-> year - bf3, month |-> month2, day |-> day2,
                 hour |-> hour2, minute |-> minute, second |-> second])
    ELSE Err("UnexpectedRange")

\* the five separator tests of from_str, in the order of the || chain: a byte
\* index at or past the end panics, the first wrong byte ends the chain
SeparatorIndex == <<4, 7, 10, 13, 16>>
SeparatorChar == <<"-", "-", " ", ":", ":">>

RECURSIVE Separators(_, _)
Separators(str, k) ==
    IF k > Len(SeparatorIndex) THEN "ok"
    ELSE IF SeparatorIndex[k] >= Len(str) THEN "panic"
    ELSE IF str[SeparatorIndex[k] + 1] # SeparatorChar[k] THEN "UnexpectedChar"
    ELSE Separators(str, k + 1)

\* the six fields of from_str: s[first..=last] and the largest value of the
\* type the field is parsed to (u16 for the year, u8 for the others)
FieldFirst == <<0, 5, 8, 11, 14, 17>>
FieldLast == <<3, 6, 9, 12, 15, 18>>
FieldMax == <<65535, 255, 255, 255, 255, 255>>

\* the six `s[a..=b].parse().map_err(..)?` lines in order, then Time::new; a
\* slice that ends past the text panics, the first field that does not parse
\* returns UnexpectedChar
RECURSIVE Fields(_, _, _)
Fields(str, k, acc) ==
    IF k > Len(FieldFirst)
    THEN Time_new(acc[1], acc[2], acc[3], acc[4], acc[5], acc[6])
    ELSE IF FieldLast[k] >= Len(str) THEN Panic
    ELSE LET p == ParseUnsigned(SubSeq(str, FieldFirst[k] + 1, FieldLast[k] + 1),
                                FieldMax[k])
         IN  IF p.ok THEN Fields(str, k + 1, Append(acc, p.v))
             ELSE Err("UnexpectedChar")

\* the length the first test of from_str compares with
TimestampLen == 19

\* impl FromStr for Time
from_str(str) ==
    IF Len(str) # TimestampLen /\ \A i \in 1..Len(str) : is_ascii_graphic(str[i])
    THEN Err("EarlyTermination")
    ELSE IF Separators(str, 1) = "panic" THEN Panic
    ELSE IF Separators(str, 1) = "UnexpectedChar" THEN Err("UnexpectedChar")
    ELSE Fields(str, 1, <<>>)

\* WriteFixWidth::write_fix_width::<WIDTH>: the WIDTH lowest decimal digits
RECURSIVE write_fix_width(_, _)
write_fix_width(width, n) ==
    IF width = 0 THEN <<>>
    ELSE Append(write_fix_width(width - 1, n \div 10), Digits[(n % 10) + 1])

\* impl Display for Time
TimeFmt(t) ==
    write_fix_width(4, t.year) \o <<"-">> \o write_fix_width(2, t.month)
        \o <<"-">> \o write_fix_width(2, t.day) \o <<"T">>
        \o write_fix_width(2, t.hour) \o <<":">> \o write_fix_width(2, t.minute)
        \o <<":">> \o write_fix_width(2, t.second) \o <<"Z">>

\* year_to_days, with year as u32
year_to_days(year) ==
    (year - 1) * 365 + (year - 1) \div 4 - (year - 1) \div 100 + (year - 1) \div 400

RECURSIVE SumDays(_)
SumDays(n) == IF n = 0 THEN 0 ELSE SumDays(n - 1) + DAYS_IN_MONTH[n]

\* date_to_days (u32): n is the sum as the code writes it, and underflow tells
\* whether a partial sum, taken left to right as the code evaluates it, falls
\* below 0 (no partial sum reaches 2^32: the year is at most 9999)
date_to_days(year, month, day) ==
    LET d1 == year_to_days(year) - year_to_days(1970)
        d2 == d1 + SumDays(month - 1)
        d3 == d2 + Bit(month > 2 /\ is_leap_year(year))
        d4 == d3 + day
        d5 == d4 - 1
    IN  [n |-> d5, underflow |-> \E d \in {d1, d2, d3, d4, d5} : d < 0]

\* Time::to_unix_time (u64): the set of what a build can return. An outcome is
\* [panic, wrapped, days, secs]: the thread panicked, or the value returned is
\* (W + days) * 24 * 60 * 60 + secs, with W = 2^32 when wrapped and 0 otherwise.
\* When a u32 step of date_to_days underflows, a build with overflow checks
\* panics, and a build without them goes on modulo 2^32: with n when n >= 0
\* and with 2^32 + n when n < 0.
to_unix_time(t) ==
    LET days == date_to_days(t.year, t.month, t.day)
        value == [panic |-> FALSE, wrapped |-> days.n < 0, days |-> days.n,
                  secs |-> t.hour * 60 * 60 + t.minute * 60 + t.second]
        panicked == [panic |-> TRUE, wrapped |-> FALSE, days |-> 0, secs |-> 0]
    IN  IF days.underflow THEN {panicked, value} ELSE {value}

\* The timestamps from_str is given. `YYYY-MM-DD HH:MM:SS` for every
\* combination of the field values below (in and out of range), and the texts
\* that one or two edits (a character replaced, the text cut short, a character
\* appended) make of two well-formed timestamps.
MaxMonth == 13
MaxDay == 32
Years == {0, 1969, 1970, 1971, 1972, 1999, 2000, 2100, 9999}
Months == 0..MaxMonth
Days == {0, 1, 2, 28, 29, 30, 31} \cup {MaxDay}
Hours == {0, 8, 9, 23, 24}
Minutes == {0, 59, 60}
Seconds == {0, 59, 60, 61}

Canon(y, m, d, h, mi, sec) ==
    write_fix_width(4, y) \o <<"-">> \o write_fix_width(2, m) \o <<"-">>
        \o write_fix_width(2, d) \o <<" ">> \o write_fix_width(2, h) \o <<":">>
        \o write_fix_width(2, mi) \o <<":">> \o write_fix_width(2, sec)

EditChars == {"0", "9", "+", "-", ":", " ", "x"}

Edit(str) ==
    {[str EXCEPT ![i] = c] : i \in 1..Len(str), c \in EditChars}
        \cup {SubSeq(str, 1, k) : k \in 0..(Len(str) - 1)}
        \cup {Append(str, c) : c \in EditChars}

EditBases == {Canon(2016, 2, 29, 12, 34, 56), Canon(1998, 12, 31, 23, 59, 60)}

\* the text is one of the field combinations, or an edited base, or an edited
\* edited base
TimeInput(str) ==
    \/ \E y \in Years, m \in Months, d \in Days, h \in Hours, mi \in Minutes,
          sec \in Seconds : str = Canon(y, m, d, h, mi, sec)
    \/ \E b \in EditBases : \E e \in Edit(b) : str \in {e} \cup Edit(e)

InitTime ==
    /\ TimeInput(s)
    /\ parsed = NoResult
    /\ shown = <<>>
    /\ IdIdle
    /\ EpubIdle
    /\ MainIdle
    /\ JsonIdle

\* a call of Time::from_str(s)
FromStr ==
    /\ parsed = NoResult
    /\ parsed' = from_str(s)
    /\ UNCHANGED <<s, shown>>

\* to_string() of the Time that from_str returned
to_string ==
    /\ parsed.tag = "Ok"
    /\ shown = <<>>
    /\ shown' = TimeFmt(parsed.time)
    /\ UNCHANGED <<s, parsed>>

NextTime == (FromStr \/ to_string) /\ UNCHANGED <<idVars, epubVars, mainVars, jsonVars>>
SpecTime == InitTime /\ [][NextTime]_vars

(***************************************************************************)
(* Package model, src/src/epub/mod.rs                                      *)
(***************************************************************************)

\* Option<T>: None is the empty sequence, Some(x) the sequence of x alone
None == <<>>
Some(x) == <<x>>

\* impl Escape for T (escape.rs), on a text given character by character
EscapeChar(ch) ==
    IF ch = "&" THEN <<"&", "a", "m", "p", ";">>
    ELSE IF ch = "\"" THEN <<"&", "q", "u", "o", "t", ";">>
    ELSE IF ch = "<" THEN <<"&", "l", "t", ";">>
    ELSE IF ch = ">" THEN <<"&", "g", "t", ";">>
    ELSE <<ch>>

RECURSIVE escape(_)
escape(str) ==
    IF str = <<>> THEN <<>> ELSE EscapeChar(Head(str)) \o escape(Tail(str))

\* impl From<&MediaType> for &str
MediaTypeStr(value) ==
    CASE value = "Css" -> "text/css"
      [] value = "Xhtml" -> "application/xhtml+xml"
      [] value = "Jpg" -> "image/jpeg"
      [] value = "Png" -> "image/png"
      [] value = "Gif" -> "iamge/gif"

\* impl Display for Direction
DirectionStr(d) == IF d = "Ltr" THEN "ltr" ELSE "rtl"

\* Markup is a sequence of tokens: a start tag, an end tag, or a whole link
\* element <a href=..>text</a>
Open(tag) == <<"<", tag>>
Close(tag) == <<"</", tag>>
Link(kind, href, text) == <<"a", kind, href, text>>

RECURSIVE Repeat(_, _)
Repeat(tokens, n) == IF n <= 0 THEN <<>> ELSE tokens \o Repeat(tokens, n - 1)

\* a level loop that opens one <ol> for a rise, however far the level rises
\* (the mutant of C19)
TopicItem_one_wrapper(i, level) ==
    (IF i.level > level
        THEN <<Open("ol"), Open("li")>>
     ELSE IF i.level = level
        THEN <<Close("li"), Open("li")>>
     ELSE <<Close("li")>> \o Repeat(<<Close("ol"), Close("li")>>, level - i.level)
              \o <<Open("li")>>)
        \o <<Link("toc", i.name, escape(i.title))>>

\* Topic::fmt, one pass of the level loop: the if / else-if chain on
\* i.level against level, then the link of the entry
TopicItem(i, level) ==
    (IF i.level > level
        THEN Repeat(<<Open("ol")>>, i.level - level) \o <<Open("li")>>
     ELSE IF i.level = level
        THEN <<Close("li"), Open("li")>>
     ELSE <<Close("li")>> \o Repeat(<<Close("ol"), Close("li")>>, level - i.level)
              \o <<Open("li")>>)
        \o <<Link("toc", i.name, escape(i.title))>>

\* Topic::fmt, the level loop from entry k on and the closing loop after it
RECURSIVE TopicToc(_, _, _)
TopicToc(contents, k, level) ==
    IF k > Len(contents) THEN Repeat(<<Close("li"), Close("ol")>>, level)
    ELSE TopicItem(contents[k], level) \o TopicToc(contents, k + 1, contents[k].level)

\* a landmarks loop without the test of the ReferenceType (the mutant of C20)
RECURSIVE TopicLandmarks_every_entry(_, _)
TopicLandmarks_every_entry(contents, k) ==
    IF k > Len(contents) THEN <<>>
    ELSE <<Open("li"), Link("titlepage", contents[k].name, escape(contents[k].title)),
           Close("li")>>
            \o TopicLandmarks_every_entry(contents, k + 1)

\* Topic::fmt, the landmarks loop from entry k on
RECURSIVE TopicLandmarks(_, _)
TopicLandmarks(contents, k) ==
    IF k > Len(contents) THEN <<>>
    ELSE (IF contents[k].reftype = "Title"
             THEN <<Open("li"), Link("titlepage", contents[k].name,
                                     escape(contents[k].title)), Close("li")>>
             ELSE <<>>)
            \o TopicLandmarks(contents, k + 1)

\* impl Display for Topic: the fixed skeleton around the two loops
Topic(e) ==
    <<Open("html"), Open("head"), Open("title"), Close("title"), Close("head"),
      Open("body"), Open("nav"), Open("h1"), Close("h1")>>
        \o TopicToc(e.contents, 1, 0)
        \o <<Close("nav"), Open("nav"), Open("ol")>>
        \o TopicLandmarks(e.contents, 1)
        \o <<Close("ol"), Close("nav"), Close("body"), Close("html")>>

\* impl Display for Manifest: one item per content entry, then one per resource
ManifestItem(x) ==
    [media_type |-> MediaTypeStr(x.media_type), id |-> IdFmt("ItemId", x.id),
     href |-> x.name, nav |-> x.reftype = "Navi"]

\* a manifest that lists the resources before the contents (the mutant of C14)
Manifest_resources_first(e) ==
    [k \in 1..Len(e.resources) |-> ManifestItem(e.resources[k])]
        \o [k \in 1..Len(e.contents) |-> ManifestItem(e.contents[k])]

Manifest(e) ==
    [k \in 1..Len(e.contents) |-> ManifestItem(e.contents[k])]
        \o [k \in 1..Len(e.resources) |-> ManifestItem(e.resources[k])]

\* a spine that lists every manifest item, the resources too (the mutant of
\* C13)
Spine_with_resources(e) ==
    [direction |-> DirectionStr(e.direction),
     itemref |-> [k \in 1..Len(e.contents) |-> IdFmt("ItemId", e.contents[k].id)]
                    \o [k \in 1..Len(e.resources) |-> IdFmt("ItemId", e.resources[k].id)]]

\* impl Display for Spine
Spine(e) ==
    [direction |-> DirectionStr(e.direction),
     itemref |-> [k \in 1..Len(e.contents) |-> IdFmt("ItemId", e.contents[k].id)]]

\* Epub::make_content: the slots of content.txt. The version-5 UUID of the
\* source is kept as the pair it is computed from.
make_content(e) ==
    [source |-> IF e.source = None THEN None
                ELSE Some([uuid |-> <<"NAMESPACE_URL", e.source[1]>>,
                           source |-> e.source[1]]),
     title |-> escape(e.title),
     language |-> "ja",
     author |-> IF e.author = None THEN None
                ELSE Some(<<escape(e.author[1][1]), escape(e.author[1][2])>>),
     modified |-> IF e.modified = None THEN None ELSE Some(TimeFmt(e.modified[1])),
     description |-> IF e.description = None THEN None
                     ELSE Some(escape(e.description[1])),
     manifest |-> Manifest(e),
     spine |-> Spine(e)]

\* The Container Writer (zip_builder::ZipArchive, outside the repository) is
\* the list of the calls made on it, each with whether it returned Ok
AddEntry(name, body, level, ok) ==
    [call |-> "add_entry", name |-> name, level |-> level, body |-> body, ok |-> ok]
Flush(ok) ==
    [call |-> "flush", name |-> "", level |-> "", body |-> <<>>, ok |-> ok]

\* Epub::new with the mimetype entry compressed like every other entry (the
\* mutant of C4)
Epub_new_compressed ==
    [zip |-> <<AddEntry("mimetype", <<>>, "High", TRUE),
               AddEntry("META-INF/container.xml", <<>>, "High", TRUE)>>,
     title |-> <<>>, author |-> None, modified |-> None, description |-> None,
     source |-> None, contents |-> <<>>, resources |-> <<>>, direction |-> "Rtl",
     id_iter |-> 0]

\* Epub::new, both add_entry calls having returned Ok
Epub_new ==
    [zip |-> <<AddEntry("mimetype", <<>>, "Raw", TRUE),
               AddEntry("META-INF/container.xml", <<>>, "High", TRUE)>>,
     title |-> <<>>, author |-> None, modified |-> None, description |-> None,
     source |-> None, contents |-> <<>>, resources |-> <<>>, direction |-> "Rtl",
     id_iter |-> 0]

\* a set_description that stores into the field of set_source (the mutant of
\* C23)
Epub_set_description_as_source(e, description) == [e EXCEPT !.source = Some(description)]

\* the setters
Epub_set_title(e, title) == [e EXCEPT !.title = title]
Epub_set_author(e, author, yomigana) == [e EXCEPT !.author = Some(<<author, yomigana>>)]
Epub_set_modified(e, modified) == [e EXCEPT !.modified = Some(modified)]
Epub_set_description(e, description) == [e EXCEPT !.description = Some(description)]
Epub_set_source(e, source) == [e EXCEPT !.source = Some(source)]
Epub_set_direction(e, dir) == [e EXCEPT !.direction = dir]

\* an add_content that reads the identifier counter without advancing it (the
\* mutant of C15)
Epub_add_content_reused_id(e, name, title, media_type, level, reftype, body, ok) ==
    LET written == [e EXCEPT !.zip = Append(@, AddEntry(name, body, "High", ok))]
    IN  IF ~ok THEN [ok |-> FALSE, epub |-> written]
        ELSE [ok |-> TRUE,
              epub |-> [written EXCEPT
                  !.contents = Append(@, [name |-> name, title |-> title,
                                          media_type |-> media_type, reftype |-> reftype,
                                          level |-> level, id |-> e.id_iter])]]

\* Epub::add_content; ok is whether zip.add_entry returned Ok. The result is
\* the Epub after the call and whether the call returned Ok.
Epub_add_content(e, name, title, media_type, level, reftype, body, ok) ==
    LET written == [e EXCEPT !.zip = Append(@, AddEntry(name, body, "High", ok))]
        next == IdIter_next(e.id_iter)
    IN  IF ~ok THEN [ok |-> FALSE, epub |-> written]
        ELSE [ok |-> TRUE,
              epub |-> [written EXCEPT
                  !.contents = Append(@, [name |-> name, title |-> title,
                                          media_type |-> media_type, reftype |-> reftype,
                                          level |-> level, id |-> next.id]),
                  !.id_iter = next.number]]

\* an add_resource that takes the identifier before it writes the entry, so
\* that a failed write has consumed one (the mutant of C21)
Epub_add_resource_id_first(e, name, media_type, reftype, body, ok) ==
    LET next == IdIter_next(e.id_iter)
        written == [e EXCEPT !.zip = Append(@, AddEntry(name, body, "High", ok)),
                             !.id_iter = next.number]
    IN  IF ~ok THEN [ok |-> FALSE, epub |-> written]
        ELSE [ok |-> TRUE,
              epub |-> [written EXCEPT
                  !.resources = Append(@, [name |-> name, media_type |-> media_type,
                                           reftype |-> reftype, id |-> next.id])]]

\* Epub::add_resource
Epub_add_resource(e, name, media_type, reftype, body, ok) ==
    LET written == [e EXCEPT !.zip = Append(@, AddEntry(name, body, "High", ok))]
        next == IdIter_next(e.id_iter)
    IN  IF ~ok THEN [ok |-> FALSE, epub |-> written]
        ELSE [ok |-> TRUE,
              epub |-> [written EXCEPT
                  !.resources = Append(@, [name |-> name, media_type |-> media_type,
                                           reftype |-> reftype, id |-> next.id]),
                  !.id_iter = next.number]]

\* a finish that goes on after a failed call and reports the last result only
\* (the mutant of C22)
Epub_finish_unchecked(e, fails) ==
    LET nav == Epub_add_resource(e, "nav.xhtml", "Xhtml", "Navi", Topic(e),
                                 fails # "nav")
        opf == [nav.epub EXCEPT !.zip = Append(@,
                    AddEntry("content.opf", make_content(nav.epub), "High",
                             fails # "opf"))]
        flushed == [opf EXCEPT !.zip = Append(@, Flush(fails # "flush"))]
    IN  [ok |-> fails # "flush", epub |-> flushed]

\* Epub::finish; fails names the Container Writer call that returns Err: "nav",
\* "opf", "flush", or "none"
Epub_finish(e, fails) ==
    LET nav == Epub_add_resource(e, "nav.xhtml", "Xhtml", "Navi", Topic(e),
                                 fails # "nav")
        opf == [nav.epub EXCEPT !.zip = Append(@,
                    AddEntry("content.opf", make_content(nav.epub), "High",
                             fails # "opf"))]
        flushed == [opf EXCEPT !.zip = Append(@, Flush(fails # "flush"))]
    IN  IF ~nav.ok THEN [ok |-> FALSE, epub |-> nav.epub]
        ELSE IF fails = "opf" THEN [ok |-> FALSE, epub |-> opf]
        ELSE [ok |-> fails = "none", epub |-> flushed]

(* ---- a build: the calls a caller makes on one Epub ---- *)

\* the bytes of a caller's entry, which the engine passes on unread
Bytes == <<"bytes">>

\* A caller stops at the first Err (every call in make_epub is followed by `?`)
\* and makes no call after finish (it consumes the model, spec section 3):
\* stage is "open" until then, and "failed" or "finished" after.
add_content(name, title, media_type, level, reftype, ok) ==
    LET r == Epub_add_content(epub, name, title, media_type, level, reftype, Bytes, ok)
    IN  /\ stage = "open"
        /\ epub' = r.epub
        /\ stage' = IF r.ok THEN "open" ELSE "failed"
        /\ calls' = Append(calls, [op |-> "add_content", name |-> name])
        /\ UNCHANGED directed

add_resource(name, media_type, reftype, ok) ==
    LET r == Epub_add_resource(epub, name, media_type, reftype, Bytes, ok)
    IN  /\ stage = "open"
        /\ epub' = r.epub
        /\ stage' = IF r.ok THEN "open" ELSE "failed"
        /\ calls' = Append(calls, [op |-> "add_resource", name |-> name])
        /\ UNCHANGED directed

finish(fails) ==
    LET r == Epub_finish(epub, fails)
    IN  /\ stage = "open"
        /\ epub' = r.epub
        /\ stage' = IF r.ok THEN "finished" ELSE "failed"
        /\ UNCHANGED <<calls, directed>>

set_title(title) ==
    stage = "open" /\ epub' = Epub_set_title(epub, title) /\ UNCHANGED <<stage, calls, directed>>
set_author(author, yomigana) ==
    stage = "open" /\ epub' = Epub_set_author(epub, author, yomigana)
        /\ UNCHANGED <<stage, calls, directed>>
set_modified(modified) ==
    stage = "open" /\ epub' = Epub_set_modified(epub, modified) /\ UNCHANGED <<stage, calls, directed>>
set_description(description) ==
    stage = "open" /\ epub' = Epub_set_description(epub, description)
        /\ UNCHANGED <<stage, calls, directed>>
set_source(source) ==
    stage = "open" /\ epub' = Epub_set_source(epub, source) /\ UNCHANGED <<stage, calls, directed>>
set_direction(dir) ==
    stage = "open" /\ epub' = Epub_set_direction(epub, dir) /\ directed' = Some(dir)
        /\ UNCHANGED <<stage, calls>>

\* the arguments the builds of the model are made with
MaxEntries == 3
MaxLevel == 3
MaxToc == 7
Levels == 1..MaxLevel
Names == {"a", "b"}
TitleText == <<"A", "&", "B">>
ContentRefTypes == {"Title", "Text"}
ResourceKinds == {<<"Css", "Style">>, <<"Jpg", "Image">>}
FailingCalls == {"none", "nav", "opf", "flush"}

InitEpub ==
    /\ epub = Epub_new
    /\ stage = "open"
    /\ calls = <<>>
    /\ directed = None
    /\ IdIdle
    /\ TimeIdle
    /\ MainIdle
    /\ JsonIdle

\* builds of up to MaxEntries entries of either kind, any call of which may
\* fail; the levels are those make_epub passes (SpecToc has the others)
NextEpub ==
    /\ \/ \E name \in Names, level \in {1, 2}, reftype \in ContentRefTypes, ok \in BOOLEAN :
            Len(calls) < MaxEntries
                /\ add_content(name, TitleText, "Xhtml", level, reftype, ok)
       \/ \E name \in Names, kind \in ResourceKinds, ok \in BOOLEAN :
            Len(calls) < MaxEntries /\ add_resource(name, kind[1], kind[2], ok)
       \/ \E fails \in FailingCalls : finish(fails)
    /\ UNCHANGED <<idVars, timeVars, mainVars, jsonVars>>

SpecEpub == InitEpub /\ [][NextEpub]_vars

\* builds of up to MaxToc content entries of any levels, no call of which fails:
\* the inputs of the navigation builder
NextToc ==
    /\ \/ \E level \in Levels :
            Len(calls) < MaxToc /\ add_content("c", TitleText, "Xhtml", level, "Text", TRUE)
       \/ finish("none")
    /\ UNCHANGED <<idVars, timeVars, mainVars, jsonVars>>

SpecToc == InitEpub /\ [][NextToc]_vars

\* builds in which the metadata is set, any number of times, around up to
\* MaxMetaEntries content entries and resources in any order
MaxMetaEntries == 2
MetaTexts == {<<"T">>, TitleText}
MetaTime == Time_new(2016, 2, 29, 12, 34, 56).time
Directions == {"Rtl", "Ltr"}

NextMeta ==
    /\ \/ \E t \in MetaTexts : set_title(t)
       \/ \E t \in MetaTexts : set_author(t, <<"y">>)
       \/ set_modified(MetaTime)
       \/ \E t \in MetaTexts : set_description(t)
       \/ \E t \in MetaTexts : set_source(t)
       \/ \E d \in Directions : set_direction(d)
       \/ \E name \in Names :
            Len(calls) < MaxMetaEntries
                /\ add_content(name, TitleText, "Xhtml", 1, "Title", TRUE)
       \/ \E name \in Names :
            Len(calls) < MaxMetaEntries /\ add_resource(name, "Css", "Style", TRUE)
       \/ \E fails \in FailingCalls : finish(fails)
    /\ UNCHANGED <<idVars, timeVars, mainVars, jsonVars>>

SpecMeta == InitEpub /\ [][NextMeta]_vars

\* builds of up to MaxKinds entries to which the caller gives any ReferenceType
\* (and a resource any MediaType), no call of which fails
MaxKinds == 2
ReferenceTypes == {"Title", "Text", "Navi", "Image", "Style"}
MediaTypes == {"Css", "Xhtml", "Jpg", "Png", "Gif"}

NextKinds ==
    /\ \/ \E reftype \in ReferenceTypes :
            Len(calls) < MaxKinds
                /\ add_content("a", TitleText, "Xhtml", 1, reftype, TRUE)
       \/ \E media_type \in MediaTypes, reftype \in ReferenceTypes :
            Len(calls) < MaxKinds /\ add_resource("b", media_type, reftype, TRUE)
       \/ finish("none")
    /\ UNCHANGED <<idVars, timeVars, mainVars, jsonVars>>

SpecKinds == InitEpub /\ [][NextKinds]_vars

(***************************************************************************)
(* The caller of the engine, src/src/main.rs                               *)
(***************************************************************************)

\* how many episodes novel.episodes() yields at most
MaxEpisodes == 2

(* ---- the directory: std::fs and the Win32 file calls, by their results ---- *)

\* A file exists under the temporary name or not; under the final name there
\* is no file ("absent"), a file that a rename replaces ("old"), a file that a
\* rename cannot replace ("blocked": read-only or open elsewhere), or the
\* archive of this run ("new"). log lists the std::fs calls of the run; io is
\* whether the system would let a well-formed call through.
FinalStates == {"absent", "old", "blocked"}

\* std::fs::rename(&temporary_name, &true_name): MoveFileExW with
\* MOVEFILE_REPLACE_EXISTING
fs_rename(f, io) ==
    LET ok == f.temporary /\ f.final # "blocked" /\ io
    IN  [ok |-> ok,
         files |-> [f EXCEPT !.temporary = IF ok THEN FALSE ELSE @,
                             !.final = IF ok THEN "new" ELSE @,
                             !.log = Append(@, [call |-> "rename", io |-> io, ok |-> ok])]]

\* std::fs::remove_file(&temporary_name)
fs_remove_file(f, io) ==
    LET ok == f.temporary /\ io
    IN  [ok |-> ok,
         files |-> [f EXCEPT !.temporary = IF ok THEN FALSE ELSE @,
                             !.log = Append(@, [call |-> "remove_file", io |-> io,
                                                ok |-> ok])]]

(* ---- TemporaryFile ---- *)

NoTemporary == [state |-> "none", handle |-> FALSE]

\* TemporaryFile::new: GetTempFileNameW creates the file and returns 0 on
\* failure; CreateFileW opens it or returns INVALID_HANDLE_VALUE
TemporaryFile_new(f, named, opened) ==
    IF ~named THEN [ok |-> FALSE, temporary |-> NoTemporary, files |-> f]
    ELSE IF ~opened
        THEN [ok |-> FALSE, temporary |-> NoTemporary,
              files |-> [f EXCEPT !.temporary = TRUE]]
    ELSE [ok |-> TRUE, temporary |-> [state |-> "live", handle |-> TRUE],
          files |-> [f EXCEPT !.temporary = TRUE]]

\* TemporaryFile::finish, on a value whose handle is Some (make_epub calls it
\* once): the handle is taken and closed, then rename, and after a failed
\* rename remove_file of the temporary name and rename again
TemporaryFile_finish(t, f, io1, io2, io3) ==
    LET taken == [t EXCEPT !.handle = FALSE]
        first == fs_rename(f, io1)
        removed == fs_remove_file(first.files, io2)
        second == fs_rename(removed.files, io3)
    IN  IF first.ok THEN [result |-> "Ok", temporary |-> taken, files |-> first.files]
        ELSE IF ~removed.ok
            THEN [result |-> "OverWriteFail", temporary |-> taken, files |-> removed.files]
        ELSE [result |-> IF second.ok THEN "Ok" ELSE "OverWriteFail",
              temporary |-> taken, files |-> second.files]

\* a Drop that promotes the file as finish does (the mutant of C24)
TemporaryFile_drop_promoting(t, f, io) ==
    IF t.handle
    THEN [temporary |-> [state |-> "dropped", handle |-> FALSE],
          files |-> fs_rename(f, io).files]
    ELSE [temporary |-> [t EXCEPT !.state = "dropped"], files |-> f]

\* impl Drop for TemporaryFile
TemporaryFile_drop(t, f, io) ==
    IF t.handle
    THEN [temporary |-> [state |-> "dropped", handle |-> FALSE],
          files |-> fs_remove_file(f, io).files]
    ELSE [temporary |-> [t EXCEPT !.state = "dropped"], files |-> f]

(* ---- make_epub ---- *)

Chapters == {None, Some("c1"), Some("c2")}
ImageTypes == {"Gif", "Jpg", "Png"}
NoEpisode == [fetched |-> FALSE, chapter |-> None]

\* before Epub::new is called there is no Epub and nothing is written
NoEpub == [Epub_new EXCEPT !.zip = <<>>]

image_type_to_media_type(it) ==
    CASE it = "Gif" -> "Gif"
      [] it = "Jpg" -> "Jpg"
      [] it = "Png" -> "Png"

\* an episode of a chapter two levels below the chapter page (the mutant of
\* C28)
EpisodeLevel_two_below(chapter) == IF chapter = None THEN 1 ELSE 3

\* the level of an episode page: `if episode.chapter.is_none() { 1 } else { 2 }`

EpisodeLevel(chapter) == IF chapter = None THEN 1 ELSE 2

\* format!("{}.xhtml", filename_iter.next().unwrap())
FileName(n) == IdFmt("NameId", IdIter_next(n).id) \o ".xhtml"

Goto(pc) == make' = [make EXCEPT !.pc = pc]
Return(result) == make' = [make EXCEPT !.pc = "return", !.result = result]

InitMake ==
    /\ make = [pc |-> "start", prev_chapter |-> None, filename_iter |-> 0,
               episodes |-> 0, episode |-> NoEpisode, images |-> <<>>,
               result |-> "running"]
    /\ INTERRUPTED = FALSE
    /\ temporary = NoTemporary
    /\ \E final \in FinalStates :
          files = [temporary |-> FALSE, final |-> final, log |-> <<>>]
    /\ epub = NoEpub
    /\ stage = "none"
    /\ calls = <<>>
    /\ directed = None
    /\ IdIdle
    /\ TimeIdle
    /\ JsonIdle

\* ncode_validate_and_normalize and Novel::new, either of which may fail
Start ==
    /\ make.pc = "start"
    /\ \E outcome \in {"Ok", "InvalidNcode", "Fetch"} :
          IF outcome = "Ok" THEN Goto("temporary") ELSE Return(outcome)
    /\ UNCHANGED <<epubVars, INTERRUPTED, temporary, files>>

\* TemporaryFile::new(..).or(Err(EpubBuildFailure))?
NewTemporary ==
    /\ make.pc = "temporary"
    /\ \E named, opened \in BOOLEAN :
          LET r == TemporaryFile_new(files, named, opened)
          IN  /\ temporary' = r.temporary
              /\ files' = r.files
              /\ IF r.ok THEN Goto("epub") ELSE Return("EpubBuildFailure")
    /\ UNCHANGED <<epubVars, INTERRUPTED>>

\* Epub::new returning Err: the writer has received the mimetype entry, and
\* when that returned Ok (written = 1) the container.xml entry, which failed;
\* no Epub value exists
Epub_new_failed(written) ==
    [NoEpub EXCEPT !.zip =
        IF written = 0 THEN <<AddEntry("mimetype", <<>>, "Raw", FALSE)>>
        ELSE <<AddEntry("mimetype", <<>>, "Raw", TRUE),
               AddEntry("META-INF/container.xml", <<>>, "High", FALSE)>>]

\* Epub::new(temporary.handle.as_mut().unwrap())?: written is the number of
\* its two add_entry calls that returned Ok
NewEpub ==
    /\ make.pc = "epub"
    /\ \E written \in 0..2 :
          IF written = 2 THEN epub' = Epub_new /\ stage' = "open" /\ Goto("metadata")
          ELSE /\ epub' = Epub_new_failed(written)
               /\ stage' = "failed"
               /\ Return("EpubBuildFailure")
    /\ UNCHANGED <<calls, directed, INTERRUPTED, temporary, files>>

\* set_source, set_author, set_title, set_modified, set_description
SetMetadata ==
    /\ make.pc = "metadata"
    /\ epub' = Epub_set_description(
                  Epub_set_modified(
                    Epub_set_title(
                      Epub_set_author(Epub_set_source(epub, <<"url">>), TitleText, <<"y">>),
                      TitleText),
                    MetaTime),
                  TitleText)
    /\ Goto("style")
    /\ UNCHANGED <<stage, calls, directed, INTERRUPTED, temporary, files>>

\* what a call of the Epub that is followed by `?` does to make_epub
Try(pc) == IF stage' = "open" THEN Goto(pc) ELSE Return("EpubBuildFailure")

AddStyle ==
    /\ make.pc = "style"
    /\ \E ok \in BOOLEAN : add_resource("style.css", "Css", "Style", ok)
    /\ Try("direction")
    /\ UNCHANGED <<INTERRUPTED, temporary, files>>

SetDirection ==
    /\ make.pc = "direction"
    /\ \E horizontal \in BOOLEAN : set_direction(IF horizontal THEN "Ltr" ELSE "Rtl")
    /\ Goto("title")
    /\ UNCHANGED <<INTERRUPTED, temporary, files>>

AddTitle ==
    /\ make.pc = "title"
    /\ \E ok \in BOOLEAN : add_content("title.xhtml", TitleText, "Xhtml", 1, "Title", ok)
    /\ Try("episodes")
    /\ UNCHANGED <<INTERRUPTED, temporary, files>>

\* novel.episodes()?
Episodes ==
    /\ make.pc = "episodes"
    /\ \E ok \in BOOLEAN : IF ok THEN Goto("loop") ELSE Return("Fetch")
    /\ UNCHANGED <<epubVars, INTERRUPTED, temporary, files>>

\* the `for i in ..`: the iterator is at its end, or yields the next item,
\* which is an episode with its images or an error
Loop ==
    /\ make.pc = "loop"
    /\ \/ Goto("finish")
       \/ /\ make.episodes < MaxEpisodes
          /\ \E fetched \in BOOLEAN, chapter \in Chapters,
                images \in {<<>>} \cup {<<it>> : it \in ImageTypes} :
                make' = [make EXCEPT !.pc = "check",
                                     !.episodes = @ + 1,
                                     !.episode = IF fetched
                                                 THEN [fetched |-> TRUE, chapter |-> chapter]
                                                 ELSE NoEpisode,
                                     !.images = IF fetched THEN images ELSE <<>>]
    /\ UNCHANGED <<epubVars, INTERRUPTED, temporary, files>>

\* a loop body without the load of INTERRUPTED (the mutant of C27)
Check_without_load ==
    /\ make.pc = "check"
    /\ IF ~make.episode.fetched THEN Return("Fetch") ELSE Goto("chapter")
    /\ UNCHANGED <<epubVars, INTERRUPTED, temporary, files>>

\* the head of the loop body: the load of INTERRUPTED, then `i?`
Check ==
    /\ make.pc = "check"
    /\ IF INTERRUPTED THEN Return("Interrupted")
       ELSE IF ~make.episode.fetched THEN Return("Fetch")
       ELSE Goto("chapter")
    /\ UNCHANGED <<epubVars, INTERRUPTED, temporary, files>>

\* `if prev_chapter != episode.chapter`: the page of a new chapter
Chapter ==
    /\ make.pc = "chapter"
    /\ IF make.prev_chapter = make.episode.chapter
       THEN Goto("images") /\ UNCHANGED epubVars
       ELSE IF make.episode.chapter = None
       THEN Return("InvalidData") /\ UNCHANGED epubVars
       ELSE /\ \E ok \in BOOLEAN :
                  add_content(FileName(make.filename_iter), make.episode.chapter,
                              "Xhtml", 1, "Text", ok)
            /\ make' = [make EXCEPT
                    !.pc = IF stage' = "open" THEN "images" ELSE "return",
                    !.result = IF stage' = "open" THEN @ ELSE "EpubBuildFailure",
                    !.filename_iter = IdIter_next(@).number,
                    !.prev_chapter = IF stage' = "open" THEN make.episode.chapter ELSE @]
    /\ UNCHANGED <<INTERRUPTED, temporary, files>>

\* one pass of the loop over the images of the episode
Image ==
    /\ make.pc = "images"
    /\ make.images # <<>>
    /\ \E ok \in BOOLEAN :
          add_resource("image", image_type_to_media_type(Head(make.images)), "Image", ok)
    /\ make' = [make EXCEPT
            !.pc = IF stage' = "open" THEN "images" ELSE "return",
            !.result = IF stage' = "open" THEN @ ELSE "EpubBuildFailure",
            !.images = Tail(@)]
    /\ UNCHANGED <<INTERRUPTED, temporary, files>>

\* the page of the episode, then thread::sleep
Episode ==
    /\ make.pc = "images"
    /\ make.images = <<>>
    /\ \E ok \in BOOLEAN :
          add_content(FileName(make.filename_iter), TitleText, "Xhtml",
                      EpisodeLevel(make.episode.chapter), "Text", ok)
    /\ make' = [make EXCEPT
            !.pc = IF stage' = "open" THEN "loop" ELSE "return",
            !.result = IF stage' = "open" THEN @ ELSE "EpubBuildFailure",
            !.filename_iter = IdIter_next(@).number]
    /\ UNCHANGED <<INTERRUPTED, temporary, files>>

\* epub.finish()?
Finish ==
    /\ make.pc = "finish"
    /\ \E fails \in FailingCalls : finish(fails)
    /\ IF stage' = "finished" THEN Goto("promote") ELSE Return("EpubBuildFailure")
    /\ UNCHANGED <<INTERRUPTED, temporary, files>>

\* drop(epub); temporary.finish()?; Ok(())
Promote ==
    /\ make.pc = "promote"
    /\ \E io1, io2, io3 \in BOOLEAN :
          LET r == TemporaryFile_finish(temporary, files, io1, io2, io3)
          IN  /\ temporary' = r.temporary
              /\ files' = r.files
              /\ Return(r.result)
    /\ UNCHANGED <<epubVars, INTERRUPTED>>

\* the return of make_epub: the TemporaryFile, if there is one, is dropped
ReturnDrop ==
    /\ make.pc = "return"
    /\ IF temporary.state = "live"
       THEN \E io \in BOOLEAN :
               LET r == TemporaryFile_drop(temporary, files, io)
               IN  temporary' = r.temporary /\ files' = r.files
       ELSE UNCHANGED <<temporary, files>>
    /\ Goto("done")
    /\ UNCHANGED <<epubVars, INTERRUPTED>>

\* the console-control handler, on its own thread at any moment
handler ==
    /\ INTERRUPTED' = TRUE
    /\ UNCHANGED <<epubVars, make, temporary, files>>

NextMake ==
    /\ \/ Start \/ NewTemporary \/ NewEpub \/ SetMetadata \/ AddStyle \/ SetDirection
       \/ AddTitle \/ Episodes \/ Loop \/ Check \/ Chapter \/ Image \/ Episode
       \/ Finish \/ Promote \/ ReturnDrop \/ handler
    /\ UNCHANGED <<idVars, timeVars, jsonVars>>

SpecMake == InitMake /\ [][NextMake]_vars

(***************************************************************************)
(* The tokenizer of the JSON reader, src/src/json/lexer.rs                 *)
(*                                                                         *)
(* A char is its code point.  The input is the sequence the iterator       *)
(* yields; pos is the index of the char that iter.next() returns next, and *)
(* past the end iter.next() returns None again and again.                  *)
(***************************************************************************)

\* the longest input
MaxJson == 4

\* passes of the loop of the number branch that are followed within one call
MaxPolls == 8

Space == 32
Quote == 34
Comma == 44
Slash == 47
Zero == 48
Nine == 57
Colon == 58
LeftSquare == 91
Backslash == 92
RightSquare == 93
LeftCurly == 123
RightCurly == 125

\* the chars inputs are made of: ' ', '"', ',', '0', '1', '2', '\\', 'n'
JsonChars == {Space, Quote, Comma, Zero, 49, 50, Backslash, 110}

is_whitespace(ch) == ch \in {Space, 10, 9, 13}

is_ascii_digit(ch) == ch \in Zero..Nine

\* char::to_digit(radix) for radix 10 and 16: None when ch is no digit
to_digit(ch, radix) ==
    IF ch \in Zero..Nine THEN Some(ch - Zero)
    ELSE IF radix = 16 /\ ch \in 65..70 THEN Some(ch - 55)
    ELSE IF radix = 16 /\ ch \in 97..102 THEN Some(ch - 87)
    ELSE None

\* char::from_u32 on a value below 16^4: None for a surrogate
from_u32(acc) == IF acc \in 55296..57343 THEN None ELSE Some(acc)

\* Option<Result<JsonToken, Error>> as one record: tag is the variant (or
\* "None"), str the String of a String value, num the u32 of a Number, the
\* bool of a Bool (0 or 1), the char or value an Error carries
Token(tag, str, num) == [tag |-> tag, str |-> str, num |-> num]

Plain(tag) == Token(tag, <<>>, 0)

\* what a call has returned, with the iterator as it leaves it and the number
\* of calls of iter.next() so far
Returned(token, pos, polls) == [token |-> token, pos |-> pos, polls |-> polls]

\* token_head after next_with_buffer found no buffered char, and its loop:
\* chars are taken until one is no whitespace or the input ends
RECURSIVE SkipWhitespace(_, _, _)
SkipWhitespace(input, pos, polls) ==
    IF pos > Len(input) THEN [ch |-> None, pos |-> pos, polls |-> polls + 1]
    ELSE IF is_whitespace(input[pos]) THEN SkipWhitespace(input, pos + 1, polls + 1)
    ELSE [ch |-> Some(input[pos]), pos |-> pos + 1, polls |-> polls + 1]

\* Tokens::next_with_buffer and Tokens::token_head
token_head(input, pos, buffer) ==
    IF buffer # None /\ ~is_whitespace(buffer[1])
    THEN [ch |-> buffer, pos |-> pos, polls |-> 0]
    ELSE SkipWhitespace(input, pos, 0)

\* the four hex digits of a \u escape
RECURSIVE Hex4(_, _, _, _, _)
Hex4(input, pos, k, acc, polls) ==
    IF k = 0 THEN Returned(Plain("Ok"), pos, polls) @@ [acc |-> acc]
    ELSE IF pos > Len(input)
        THEN Returned(Plain("EarlyTerminate"), pos, polls + 1) @@ [acc |-> acc]
    ELSE IF to_digit(input[pos], 16) = None
        THEN Returned(Token("UnexpectedChar", <<>>, input[pos]), pos + 1, polls + 1)
                @@ [acc |-> acc]
    ELSE Hex4(input, pos + 1, k - 1, acc * 16 + to_digit(input[pos], 16)[1], polls + 1)

\* the char an escape letter stands for, None for an unknown letter
Escaped(ch) ==
    CASE ch = 110 -> Some(10)
      [] ch = 116 -> Some(9)
      [] ch = 114 -> Some(13)
      [] ch = Backslash -> Some(Backslash)
      [] ch = Slash -> Some(Slash)
      [] ch = 98 -> Some(8)
      [] ch = 102 -> Some(12)
      [] OTHER -> None

\* Tokens::lex, the branch of '"'
RECURSIVE LexString(_, _, _, _)
LexString(input, pos, newstr, polls) ==
    IF pos > Len(input) THEN Returned(Plain("EarlyTerminate"), pos, polls + 1)
    ELSE IF input[pos] = Quote
        THEN Returned(Token("String", newstr, 0), pos + 1, polls + 1)
    ELSE IF input[pos] # Backslash
        THEN LexString(input, pos + 1, Append(newstr, input[pos]), polls + 1)
    ELSE IF pos + 1 > Len(input)
        THEN Returned(Plain("EarlyTerminate"), pos + 1, polls + 2)
    ELSE IF input[pos + 1] = 117
        THEN LET hex == Hex4(input, pos + 2, 4, 0, polls + 2)
             IN  IF hex.token.tag # "Ok" THEN Returned(hex.token, hex.pos, hex.polls)
                 ELSE IF from_u32(hex.acc) = None
                     THEN Returned(Token("InvalidCodePoint", <<>>, hex.acc),
                                   hex.pos, hex.polls)
                 ELSE LexString(input, hex.pos,
                                Append(newstr, from_u32(hex.acc)[1]), hex.polls)
    ELSE IF Escaped(input[pos + 1]) = None
        THEN Returned(Token("UnknownEscapeChar", <<>>, input[pos + 1]),
                      pos + 2, polls + 2)
    ELSE LexString(input, pos + 2, Append(newstr, Escaped(input[pos + 1])[1]),
                   polls + 2)

\* Tokens::lex, the branches of 'n', 't' and 'f': the rest of the word
RECURSIVE LexWord(_, _, _, _, _)
LexWord(input, pos, word, token, polls) ==
    IF word = <<>> THEN Returned(token, pos, polls)
    ELSE IF pos > Len(input) THEN Returned(Plain("EarlyTerminate"), pos, polls + 1)
    ELSE IF input[pos] # Head(word)
        THEN Returned(Token("UnexpectedChar", <<>>, input[pos]), pos + 1, polls + 1)
    ELSE LexWord(input, pos + 1, Tail(word), token, polls + 1)

\* Tokens::lex on a first char other than '1'..='9'
lex(input, pos, first_ch, polls) ==
    CASE first_ch = LeftCurly -> Returned(Plain("LeftCurly"), pos, polls)
      [] first_ch = RightCurly -> Returned(Plain("RightCurly"), pos, polls)
      [] first_ch = LeftSquare -> Returned(Plain("LeftSquare"), pos, polls)
      [] first_ch = RightSquare -> Returned(Plain("RightSquare"), pos, polls)
      [] first_ch = Colon -> Returned(Plain("Colon"), pos, polls)
      [] first_ch = Comma -> Returned(Plain("Comma"), pos, polls)
      [] first_ch = Quote -> LexString(input, pos, <<>>, polls)
      [] first_ch = 110 -> LexWord(input, pos, <<117, 108, 108>>, Plain("Null"), polls)
      [] first_ch = 116 ->
            LexWord(input, pos, <<114, 117, 101>>, Token("Bool", <<>>, 1), polls)
      [] first_ch = 102 ->
            LexWord(input, pos, <<97, 108, 115, 101>>, Token("Bool", <<>>, 0), polls)
      [] first_ch = Zero -> Returned(Token("Number", <<>>, 0), pos, polls)
      [] OTHER -> Returned(Plain("Null"), pos, polls)

\* Tokens::new over an input; out is what the calls of next have returned
InitJson ==
    /\ \E n \in 0..MaxJson : \E input \in [1..n -> JsonChars] :
          lexer = [pc |-> "ready", input |-> input, pos |-> 1, buffer |-> None,
                   acc |-> 0, polls |-> 0, out |-> <<>>]
    /\ IdIdle /\ TimeIdle /\ EpubIdle /\ MainIdle

\* a call of Tokens::next, up to its return or to the loop of the number
\* branch; next is not called again after it has returned None
Tokens_next ==
    /\ lexer.pc = "ready"
    /\ IF lexer.out = <<>> THEN TRUE ELSE lexer.out[Len(lexer.out)].tag # "None"
    /\ LET head == token_head(lexer.input, lexer.pos, lexer.buffer)
       IN  IF head.ch = None
           THEN lexer' = [lexer EXCEPT !.pos = head.pos, !.buffer = None,
                                       !.polls = head.polls,
                                       !.out = Append(@, Plain("None"))]
           ELSE IF head.ch[1] \in (Zero + 1)..Nine
           THEN lexer' = [lexer EXCEPT !.pc = "number", !.pos = head.pos,
                                       !.buffer = None, !.polls = head.polls,
                                       !.acc = to_digit(head.ch[1], 10)[1]]
           ELSE LET r == lex(lexer.input, head.pos, head.ch[1], head.polls)
                IN  lexer' = [lexer EXCEPT !.pos = r.pos, !.buffer = None,
                                           !.polls = r.polls,
                                           !.out = Append(@, r.token)]

\* one pass of the loop of the number branch: iter.next(), then unget(None)
\* and the next pass, or a digit more, or unget, break and the return
NumberLoop ==
    /\ lexer.pc = "number"
    /\ lexer.polls < MaxPolls
    /\ IF lexer.pos > Len(lexer.input)
       THEN lexer' = [lexer EXCEPT !.buffer = None, !.polls = @ + 1]
       ELSE LET ch == lexer.input[lexer.pos]
            IN  IF is_ascii_digit(ch)
                THEN lexer' = [lexer EXCEPT !.pos = @ + 1, !.polls = @ + 1,
                                            !.acc = @ * 10 + to_digit(ch, 10)[1]]
                ELSE lexer' = [lexer EXCEPT !.pc = "ready", !.pos = @ + 1,
                                            !.polls = @ + 1, !.buffer = Some(ch),
                                            !.out = Append(@, Token("Number", <<>>,
                                                                     lexer.acc))]

NextJson ==
    /\ \/ Tokens_next
       \/ NumberLoop
    /\ UNCHANGED <<idVars, timeVars, epubVars, mainVars>>

SpecJson == InitJson /\ [][NextJson]_vars

(***************************************************************************)
(* The claims                                                              *)
(***************************************************************************)

\* C1: Name-ID rendering is injective: the strings rendered for the counters
\* 0 .. number-1 of an IdIter<NameId> are pairwise different, so as many
\* different strings have been issued as identifiers were handed out.
C1_NameIdInjective ==
    policy = "NameId" => Cardinality(issued) = number

(* ---- the calendar converter: what the claims speak of ---- *)

\* the text has the 19 bytes of YYYY-MM-DD HH:MM:SS: the five separators in
\* place and a digit in every other position
DigitPositions == (1..TimestampLen) \ {SeparatorIndex[k] + 1 : k \in 1..Len(SeparatorIndex)}

WellFormed(str) ==
    /\ Len(str) = TimestampLen
    /\ \A k \in 1..Len(SeparatorIndex) : str[SeparatorIndex[k] + 1] = SeparatorChar[k]
    /\ \A i \in DigitPositions : str[i] \in DigitChars

\* the six numbers a well-formed text spells
Local(str) ==
    [year |-> DecimalValue(SubSeq(str, 1, 4)), month |-> DecimalValue(SubSeq(str, 6, 7)),
     day |-> DecimalValue(SubSeq(str, 9, 10)), hour |-> DecimalValue(SubSeq(str, 12, 13)),
     minute |-> DecimalValue(SubSeq(str, 15, 16)), second |-> DecimalValue(SubSeq(str, 18, 19))]

\* the Gregorian calendar as the specification words it
LeapYear(y) == y % 400 = 0 \/ (y % 4 = 0 /\ y % 100 # 0)

DaysInMonth(m, leap) ==
    IF m \in {4, 6, 9, 11} THEN 30
    ELSE IF m = 2 THEN (IF leap THEN 29 ELSE 28)
    ELSE 31

\* the ranges of section 4.2 on a local value
InRange(t) ==
    /\ t.year \in 1970..9999
    /\ t.month \in 1..12
    /\ t.day \in 1..DaysInMonth(t.month, LeapYear(t.year))
    /\ t.hour <= 23
    /\ t.minute <= 59
    /\ (t.second <= 59 \/ (t.second = 60 /\ t.hour = 23 /\ t.minute = 59))

\* days from 1970-01-01 to a date of the proleptic Gregorian calendar, by the
\* era / day-of-era count (years from March), not by the code's sums
DaysFromCivil(y, m, d) ==
    LET yy == IF m <= 2 THEN y - 1 ELSE y
        era == yy \div 400
        yoe == yy - era * 400
        doy == (153 * ((m + 9) % 12) + 2) \div 5 + d - 1
        doe == yoe * 365 + yoe \div 4 - yoe \div 100 + doy
    IN  era * 146097 + doe - 719468

SecondsOfDay(t) == t.hour * 3600 + t.minute * 60 + t.second

\* an outcome of to_unix_time is the number of seconds that lies `back` seconds
\* before the local value t read as UTC (compared day by day: the numbers
\* themselves pass 2^31)
IsSecondsBefore(o, t, back) ==
    /\ ~o.panic
    /\ ~o.wrapped
    /\ (o.days - DaysFromCivil(t.year, t.month, t.day)) * 86400
           = SecondsOfDay(t) - back - o.secs

JST == 32400

\* C5: for every input that passes validation the Time produced is the input
\* moved back exactly 9 hours with minute and second unchanged, so that
\* to_unix_time of the result is the input's epoch seconds minus 32400.
C5_NineHoursBack ==
    (parsed.tag = "Ok" /\ WellFormed(s)) =>
        /\ parsed.time.minute = Local(s).minute
        /\ parsed.time.second = Local(s).second
        /\ \A o \in to_unix_time(parsed.time) : IsSecondsBefore(o, Local(s), JST)

\* C5 holds of every input whose UTC value is not before 1970-01-01T00:00:00Z
\* (the complement of the failing inputs of C5).
C5_NineHoursBackFromEpoch ==
    (parsed.tag = "Ok" /\ WellFormed(s) /\ parsed.time.year >= 1970) =>
        /\ parsed.time.minute = Local(s).minute
        /\ parsed.time.second = Local(s).second
        /\ \A o \in to_unix_time(parsed.time) : IsSecondsBefore(o, Local(s), JST)

\* C6: for a well-formed 19-byte input, from_str returns Err(UnexpectedRange)
\* if and only if some field is out of range, and Ok otherwise.
C6_RangeErrorIffOutOfRange ==
    (parsed.tag # "none" /\ WellFormed(s)) =>
        IF InRange(Local(s)) THEN parsed.tag = "Ok"
        ELSE parsed = Err("UnexpectedRange")

\* C6 witness: 2100 is no leap year, so its 29 February is refused, and the
\* second 60 is accepted at 23:59.
C6_Witness ==
    \/ s = Canon(2100, 2, 29, 9, 0, 0) /\ parsed = Err("UnexpectedRange")
    \/ s = Canon(1998, 12, 31, 23, 59, 60) /\ parsed.tag = "Ok"

\* C7: from_str is total with a closed error taxonomy: it returns Ok or one of
\* UnexpectedChar, EarlyTermination, UnexpectedRange, and never panics.
C7_ClosedTaxonomy ==
    \/ parsed.tag \in {"none", "Ok"}
    \/ /\ parsed.tag = "Err"
       /\ parsed.err \in {"UnexpectedChar", "EarlyTermination", "UnexpectedRange"}

\* C8: for every input whose length is not exactly 19 bytes, from_str returns
\* Err(EarlyTermination).
C8_WrongLengthIsEarlyTermination ==
    (parsed.tag # "none" /\ Len(s) # TimestampLen) => parsed = Err("EarlyTermination")

\* C9: for every 19-byte input that deviates from the grammar (a wrong
\* separator, or a non-digit in a digit position), from_str returns
\* Err(UnexpectedChar).
C9_DeviationIsUnexpectedChar ==
    (parsed.tag # "none" /\ Len(s) = TimestampLen /\ ~WellFormed(s)) =>
        parsed = Err("UnexpectedChar")

\* C10: every Time that from_str returns satisfies the TimePoint ranges as
\* stored: year in 1970..9999, month in 1..12, day valid for that month and
\* year, hour in 0..23, minute in 0..59, and second in 0..59 or second = 60
\* only when the stored hour is 23 and the stored minute is 59.
C10_StoredInRange ==
    parsed.tag = "Ok" => InRange(parsed.time)

\* the same ranges with the year test alone: no Time that from_str returns is
\* of a year before 1970.
C10_StoredYearInRange ==
    parsed.tag = "Ok" => parsed.time.year \in 1970..9999

\* what the stored values do satisfy: they are date-times of the calendar nine
\* hours before an accepted local value, in 1969 only as 31 December at 15:00
\* or later, with the second 60 at 14:59 (the local 23:59).
C10_StoredNineHoursBeforeLocal ==
    parsed.tag = "Ok" =>
        LET t == parsed.time
        IN  /\ t.year \in 1969..9999
            /\ t.year = 1969 => (t.month = 12 /\ t.day = 31 /\ t.hour >= 15)
            /\ t.month \in 1..12
            /\ t.day \in 1..DaysInMonth(t.month, LeapYear(t.year))
            /\ t.hour \in 0..23
            /\ t.minute \in 0..59
            /\ (t.second \in 0..59 \/ (t.second = 60 /\ t.hour = 14 /\ t.minute = 59))

(* ---- the package model: what the claims speak of ---- *)

\* every entry of the package, contents first
Entries(e) ==
    [k \in 1..Len(e.contents) |-> [list |-> "contents", name |-> e.contents[k].name,
                                   id |-> e.contents[k].id]]
        \o [k \in 1..Len(e.resources) |-> [list |-> "resources",
                                           name |-> e.resources[k].name,
                                           id |-> e.resources[k].id]]

\* the entry was made by the call that got the identifier counter at x.id: the
\* (x.id + 1)-th add_* call of the caller, or, after them all, the add_resource
\* of nav.xhtml inside finish
MadeByCall(x) ==
    IF x.id + 1 <= Len(calls)
    THEN /\ calls[x.id + 1].name = x.name
         /\ calls[x.id + 1].op = (IF x.list = "contents" THEN "add_content"
                                  ELSE "add_resource")
    ELSE x.id = Len(calls) /\ x.name = "nav.xhtml" /\ x.list = "resources"

\* identifiers are pairwise distinct, as numbers and as rendered, and follow
\* the order of insertion out of one counter
IdentifiersInOrder ==
    LET all == Entries(epub)
    IN  /\ \A i, j \in 1..Len(all) :
              i # j => /\ all[i].id # all[j].id
                       /\ IdFmt("ItemId", all[i].id) # IdFmt("ItemId", all[j].id)
        /\ \A i \in 1..Len(all) : all[i].id < epub.id_iter /\ MadeByCall(all[i])
        /\ Len(all) = epub.id_iter
        /\ \A i, j \in 1..Len(epub.contents) :
              i < j => epub.contents[i].id < epub.contents[j].id
        /\ \A i, j \in 1..Len(epub.resources) :
              i < j => epub.resources[i].id < epub.resources[j].id

\* a step keeps every entry there is, with its identifier, and gives a new
\* entry an identifier no entry had before
IdentifiersKept ==
    /\ Len(epub'.contents) >= Len(epub.contents)
    /\ Len(epub'.resources) >= Len(epub.resources)
    /\ \A k \in 1..Len(epub.contents) : epub'.contents[k] = epub.contents[k]
    /\ \A k \in 1..Len(epub.resources) : epub'.resources[k] = epub.resources[k]
    /\ \A k \in (Len(epub.contents) + 1)..Len(epub'.contents) :
          \A i \in 1..Len(Entries(epub)) : Entries(epub)[i].id # epub'.contents[k].id
    /\ \A k \in (Len(epub.resources) + 1)..Len(epub'.resources) :
          \A i \in 1..Len(Entries(epub)) : Entries(epub)[i].id # epub'.resources[k].id

\* C2: in every build the identifiers of all content and resource entries are
\* pairwise distinct and were allocated from one counter in increasing order
\* of insertion, and no step changes or reuses the identifier of an entry that
\* is already inserted.
C2_IdentifiersUniqueOrderedStable ==
    []IdentifiersInOrder /\ [][IdentifiersKept]_vars

\* C2 witness: a finished build in which a resource was inserted between two
\* content entries, so that the two lists interleave on the one counter.
C2_Witness ==
    /\ stage = "finished"
    /\ [k \in 1..Len(epub.contents) |-> epub.contents[k].id] = <<0, 2>>
    /\ [k \in 1..Len(epub.resources) |-> epub.resources[k].id] = <<1, 3>>

\* the markup is well-formed: from token k on, with the start tags in `open`
\* still open, every end tag closes the start tag opened last and nothing
\* stays open at the end
RECURSIVE WellNested(_, _, _)
WellNested(tokens, k, open) ==
    IF k > Len(tokens) THEN open = <<>>
    ELSE IF tokens[k][1] = "<"
        THEN WellNested(tokens, k + 1, Append(open, tokens[k][2]))
    ELSE IF tokens[k][1] = "</"
        THEN /\ open # <<>>
             /\ open[Len(open)] = tokens[k][2]
             /\ WellNested(tokens, k + 1, SubSeq(open, 1, Len(open) - 1))
    ELSE WellNested(tokens, k + 1, open)

\* after a finish that returned Ok the Container Writer got nav.xhtml,
\* content.opf and the flush last
NavWritten == epub.zip[Len(epub.zip) - 2].body
OpfWritten == epub.zip[Len(epub.zip) - 1].body

Stepwise(contents) ==
    /\ contents # <<>> => contents[1].level = 1
    /\ \A k \in 2..Len(contents) : contents[k].level <= contents[k - 1].level + 1

\* C3: for every sequence of content entries with levels >= 1 the navigation
\* document that finish writes is well-formed markup.
C3_TocWellFormed ==
    stage = "finished" => WellNested(NavWritten, 1, <<>>)

\* C3 holds of the builds whose levels start at 1 and never rise by more than 1
\* (the complement of the failing inputs of C3).
C3_TocWellFormedWhenStepwise ==
    (stage = "finished" /\ Stepwise(epub.contents)) => WellNested(NavWritten, 1, <<>>)

\* C4: in every build that ends with a successful finish the Container Writer
\* was called with: mimetype (stored), META-INF/container.xml, one add_entry
\* per add_content / add_resource call in the order of the calls, nav.xhtml,
\* content.opf, and flush last; every call returned Ok.
C4_ContainerWriterOrder ==
    stage = "finished" =>
        /\ [k \in 1..Len(epub.zip) |-> epub.zip[k].name]
              = <<"mimetype", "META-INF/container.xml">>
                    \o [k \in 1..Len(calls) |-> calls[k].name]
                    \o <<"nav.xhtml", "content.opf", "">>
        /\ \A k \in 1..Len(epub.zip) :
              /\ epub.zip[k].ok
              /\ epub.zip[k].call = (IF k = Len(epub.zip) THEN "flush" ELSE "add_entry")
        /\ epub.zip[1].level = "Raw"

\* C4 witness: a finished build of a content entry and then a resource under
\* different names.
C4_Witness ==
    /\ stage = "finished"
    /\ calls = <<[op |-> "add_content", name |-> "b"], [op |-> "add_resource", name |-> "a"]>>

\* how many elements of the sequence satisfy the test
Count(seq, Test(_)) == Cardinality({k \in 1..Len(seq) : Test(seq[k])})

HasNavProperty(item) == item.nav
IsNavi(x) == x.reftype = "Navi"

\* C11: after finish() returns Ok, exactly one manifest item carries the nav
\* property and exactly one resource entry has ReferenceType Navi, whatever
\* add_content / add_resource calls with whatever ReferenceType arguments
\* preceded it.
C11_ExactlyOneNav ==
    stage = "finished" =>
        /\ Count(OpfWritten.manifest, HasNavProperty) = 1
        /\ Count(epub.resources, IsNavi) = 1

\* C11 holds of the builds in which the caller passes Navi to no call (the
\* complement of the failing inputs of C11): the one nav item is nav.xhtml.
C11_ExactlyOneNavWhenCallerPassesNone ==
    (/\ stage = "finished"
     /\ Count(epub.contents, IsNavi) = 0
     /\ Count(SubSeq(epub.resources, 1, Len(epub.resources) - 1), IsNavi) = 0) =>
        /\ Count(OpfWritten.manifest, HasNavProperty) = 1
        /\ Count(epub.resources, IsNavi) = 1
        /\ OpfWritten.manifest[Len(OpfWritten.manifest)].href = "nav.xhtml"
        /\ OpfWritten.manifest[Len(OpfWritten.manifest)].nav

\* the sequence has no element twice
Distinct(seq) == \A i, j \in 1..Len(seq) : i # j => seq[i] # seq[j]

EntryNames(e) == [k \in 1..Len(Entries(e)) |-> Entries(e)[k].name]

\* C12: in every reachable state of an Epub (after any sequence of add_content,
\* add_resource and finish) the name fields of all content entries and
\* resource entries, the generated nav.xhtml included, are pairwise distinct.
C12_NamesUnique == Distinct(EntryNames(epub))

\* C12 holds of the builds in which the caller passes a different name to
\* every call and "nav.xhtml" to none (the complement of the failing inputs of
\* C12).
C12_NamesUniqueWhenCallerNamesAre ==
    (/\ Distinct([k \in 1..Len(calls) |-> calls[k].name])
     /\ \A k \in 1..Len(calls) : calls[k].name # "nav.xhtml") =>
        Distinct(EntryNames(epub))

\* the calls of the build with their positions: the k-th add_* call of a build
\* gets the identifier counter k - 1
NumberedCalls == [k \in 1..Len(calls) |-> [op |-> calls[k].op, name |-> calls[k].name,
                                           id |-> k - 1]]
IsContentCall(c) == c.op = "add_content"
IsResourceCall(c) == c.op = "add_resource"
ContentCalls == SelectSeq(NumberedCalls, IsContentCall)
ResourceCalls == SelectSeq(NumberedCalls, IsResourceCall)

\* the value of the page-progression-direction attribute for a Direction
DirectionWord(d) == CASE d = "Rtl" -> "rtl" [] d = "Ltr" -> "ltr"

\* C13: the spine emitted by finish() contains exactly one itemref per content
\* entry, in content insertion order, and no itemref for any resource entry
\* (style, image, or the generated nav); its page-progression-direction
\* attribute is the value of the last set_direction call.
C13_SpineIsContentsInOrder ==
    stage = "finished" =>
        LET spine == OpfWritten.spine
        IN  /\ Len(spine.itemref) = Len(epub.contents)
            /\ spine.itemref
                  = [k \in 1..Len(ContentCalls) |-> IdFmt("ItemId", ContentCalls[k].id)]
            /\ \A k \in 1..Len(spine.itemref), r \in 1..Len(epub.resources) :
                  spine.itemref[k] # IdFmt("ItemId", epub.resources[r].id)
            /\ directed # None => spine.direction = DirectionWord(directed[1])

\* C13 witness: a finished build of a resource and then a content entry on
\* which set_direction(Ltr) was the last set_direction call.
C13_Witness ==
    /\ stage = "finished"
    /\ directed = Some("Ltr")
    /\ Len(calls) = 2 /\ calls[1].op = "add_resource" /\ calls[2].op = "add_content"
    /\ OpfWritten.spine.itemref = <<"B">>

\* the toc of a navigation document: its tokens up to the end of the first nav
TocEnd(tokens) ==
    CHOOSE k \in 1..Len(tokens) :
        tokens[k] = Close("nav") /\ \A j \in 1..(k - 1) : tokens[j] # Close("nav")

\* how many <ol> are open after token k
OlDepth(tokens, k) ==
    Cardinality({j \in 1..k : tokens[j] = Open("ol")})
        - Cardinality({j \in 1..k : tokens[j] = Close("ol")})

\* the list items of the outermost list of the toc
TopLevelItems(tokens) ==
    {k \in 1..TocEnd(tokens) : tokens[k] = Open("li") /\ OlDepth(tokens, k) = 1}

\* C14: the manifest emitted by finish() has exactly one item per content
\* entry followed by one item per resource entry (all contents before all
\* resources, each group in insertion order), so its length is |contents| +
\* |resources| with the generated nav counted as a resource; in particular two
\* level-1 contents and no caller resources give a spine of length 2, a
\* manifest of length 3 and a toc with exactly two top-level list items.
C14_ManifestIsContentsThenResources ==
    stage = "finished" =>
        LET manifest == OpfWritten.manifest
            made == ContentCalls \o ResourceCalls
                        \o <<[op |-> "finish", name |-> "nav.xhtml", id |-> Len(calls)]>>
        IN  /\ Len(manifest) = Len(epub.contents) + Len(epub.resources)
            /\ Len(epub.contents) = Len(ContentCalls)
            /\ Len(epub.resources) = Len(ResourceCalls) + 1
            /\ [k \in 1..Len(manifest) |-> manifest[k].href]
                  = [k \in 1..Len(made) |-> made[k].name]
            /\ [k \in 1..Len(manifest) |-> manifest[k].id]
                  = [k \in 1..Len(made) |-> IdFmt("ItemId", made[k].id)]
            /\ (/\ [k \in 1..Len(calls) |-> calls[k].op] = <<"add_content", "add_content">>
                /\ \A k \in 1..Len(epub.contents) : epub.contents[k].level = 1) =>
                    /\ Len(OpfWritten.spine.itemref) = 2
                    /\ Len(manifest) = 3
                    /\ Cardinality(TopLevelItems(NavWritten)) = 2

\* C14 witness: a finished build of a title page and a chapter, both of level
\* 1, and no resource.
C14_Witness ==
    /\ stage = "finished"
    /\ Len(epub.contents) = 2 /\ Len(calls) = 2
    /\ epub.contents[1].reftype = "Title" /\ epub.contents[1].level = 1
    /\ epub.contents[2].reftype = "Text" /\ epub.contents[2].level = 1
    /\ Len(OpfWritten.manifest) = 3
    /\ Cardinality(TopLevelItems(NavWritten)) = 2

\* C15: in the content.opf produced by finish() the package is
\* cross-referentially consistent: every spine itemref's idref equals the id of
\* exactly one manifest item, that item is the content entry at the same
\* position, and every manifest href names an entry that was written to the
\* container earlier in the same build.
C15_CrossReferences ==
    stage = "finished" =>
        LET manifest == OpfWritten.manifest
            itemref == OpfWritten.spine.itemref
            opf == Len(epub.zip) - 1
        IN  /\ \A k \in 1..Len(itemref) :
                  /\ {j \in 1..Len(manifest) : manifest[j].id = itemref[k]} = {k}
                  /\ k <= Len(epub.contents)
                  /\ manifest[k].href = epub.contents[k].name
                  /\ manifest[k].media_type = MediaTypeStr(epub.contents[k].media_type)
            /\ epub.zip[opf].name = "content.opf"
            /\ \A j \in 1..Len(manifest) :
                  \E z \in 1..(opf - 1) :
                      /\ epub.zip[z].call = "add_entry"
                      /\ epub.zip[z].ok
                      /\ epub.zip[z].name = manifest[j].href

\* C15 witness: a finished build of two content entries around a resource: the
\* itemrefs A and C point at the first two manifest items, B is the third.
C15_Witness ==
    /\ stage = "finished"
    /\ OpfWritten.spine.itemref = <<"A", "C">>
    /\ [k \in 1..Len(OpfWritten.manifest) |-> OpfWritten.manifest[k].id]
          = <<"A", "C", "B", "D">>

(* ---- the identifier allocator: what the claims speak of ---- *)

\* the size L of the continuation alphabet of a profile
ContinuationBase(T) == IF T = "NameId" THEN 36 ELSE 62

\* the digits of q in base L, least significant first, until the quotient is 0
RECURSIVE NumeralDigits(_, _, _)
NumeralDigits(alphabet, L, q) ==
    IF q = 0 THEN ""
    ELSE alphabet[(q % L) + 1] \o NumeralDigits(alphabet, L, q \div L)

\* the mixed-radix numeral of n: the first character out of the first
\* alphabet, the quotient by its size F in base L out of the continuation
\* alphabet
MixedRadix(T, n) ==
    FIRST_LETTER(T)[(n % Len(FIRST_LETTER(T))) + 1]
        \o NumeralDigits(LETTER(T), ContinuationBase(T), n \div Len(FIRST_LETTER(T)))

\* the identifier handed out last is the one of the counter number - 1
LastId == number - 1

\* C16: for every counter value n and for both profiles the rendered
\* identifier equals the mixed-radix numeral of the stated algorithm: first
\* character = first-alphabet[n mod F], then the digits of n / F in base L,
\* least significant first, until the quotient is 0, with L = 36 for Name-ID
\* and 62 for Item-ID; Name-ID(0) = "0" and Name-ID(35) = "z".
C16_MixedRadixNumeral ==
    number > 0 =>
        /\ IdFmt(policy, LastId) \in issued
        /\ IdFmt(policy, LastId) = MixedRadix(policy, LastId)
        /\ (policy = "NameId" /\ LastId = 0) => IdFmt(policy, LastId) = "0"
        /\ (policy = "NameId" /\ LastId = 35) => IdFmt(policy, LastId) = "z"

\* C16 holds of the Item-ID profile, and of the Name-ID profile as long as the
\* quotient n / F is below 36 (the complement of the failing inputs of C16).
C16_MixedRadixNumeralBelowCarry ==
    (number > 0 /\ (policy = "ItemId" \/ LastId < 36 * 36)) =>
        /\ IdFmt(policy, LastId) \in issued
        /\ IdFmt(policy, LastId) = MixedRadix(policy, LastId)
        /\ (policy = "NameId" /\ LastId = 0) => IdFmt(policy, LastId) = "0"
        /\ (policy = "NameId" /\ LastId = 35) => IdFmt(policy, LastId) = "z"

\* C17: Item-ID rendering is injective: the strings rendered for the counters
\* 0 .. number-1 of an IdIter<ItemId> are pairwise different.
C17_ItemIdInjective ==
    policy = "ItemId" => Cardinality(issued) = number

\* C17 witness: an IdIter<ItemId> has handed out identifiers of one, two and
\* three characters (52 * 62 = 3224 is the first of three).
C17_Witness ==
    /\ policy = "ItemId"
    /\ number > 52 * 62
    /\ {"A", "z", "A1", "z1", "AZ", "A01"} \subseteq issued

RECURSIVE Join(_)
Join(chars) == IF chars = <<>> THEN "" ELSE Head(chars) \o Join(Tail(chars))

AsciiLetters == {Upper[i] : i \in 1..Len(Upper)} \cup {Lower[i] : i \in 1..Len(Lower)}
AsciiDigits == {"0", "1", "2", "3", "4", "5", "6", "7", "8", "9"}

\* C18: for every counter value n the first character of the rendered Item-ID
\* is an ASCII letter (never a digit) and every later character is an ASCII
\* letter or digit.
C18_ItemIdCharacters ==
    (policy = "ItemId" /\ number > 0) =>
        LET chars == IdChars(policy, LastId)
        IN  /\ Join(chars) = IdFmt(policy, LastId)
            /\ Join(chars) \in issued
            /\ chars[1] \in AsciiLetters
            /\ \A i \in 2..Len(chars) : chars[i] \in AsciiLetters \cup AsciiDigits

\* C18 witness: the first identifier of two characters, a letter and then a
\* digit, has been rendered.
C18_Witness ==
    /\ policy = "ItemId"
    /\ LastId = 52
    /\ IdChars(policy, LastId) = <<"A", "1">>
    /\ "A1" \in issued

(* ---- the navigation document: what the claims speak of ---- *)

\* the positions of the links of the toc, and the number of <ol> open right
\* after the k-th of them
TocLinks(tokens) == {p \in 1..TocEnd(tokens) : tokens[p][1] = "a"}

DepthAfter(tokens, k) ==
    LET links == TocLinks(tokens)
        p == CHOOSE p \in links : Cardinality({q \in links : q <= p}) = k
    IN  OlDepth(tokens, p)

LevelsOf(contents) == [k \in 1..Len(contents) |-> contents[k].level]

\* C19: while the toc builder processes a sequence of entries with levels >= 1,
\* immediately after the item of each entry is emitted the number of opened
\* and not yet closed <ol> wrappers equals that entry's level, and after the
\* final closing loop it is 0; for levels [1,2,2,1,3,3,2] the depth after each
\* entry is 1,2,2,1,3,3,2 and then 0.
C19_DepthIsLevel ==
    stage = "finished" =>
        /\ Cardinality(TocLinks(NavWritten)) = Len(epub.contents)
        /\ \A k \in 1..Len(epub.contents) :
              DepthAfter(NavWritten, k) = epub.contents[k].level
        /\ OlDepth(NavWritten, TocEnd(NavWritten)) = 0
        /\ LevelsOf(epub.contents) = <<1, 2, 2, 1, 3, 3, 2>> =>
              [k \in 1..7 |-> DepthAfter(NavWritten, k)] = <<1, 2, 2, 1, 3, 3, 2>>

\* C19 witness: the toc of the levels [1,2,2,1,3,3,2] has been written, its
\* last item at depth 2.
C19_Witness ==
    /\ stage = "finished"
    /\ LevelsOf(epub.contents) = <<1, 2, 2, 1, 3, 3, 2>>
    /\ DepthAfter(NavWritten, 7) = 2

\* the landmarks section: the tokens after the toc, and the links among them
LandmarkTokens(tokens) == SubSeq(tokens, TocEnd(tokens) + 1, Len(tokens))
IsLink(token) == token[1] = "a"
IsListItem(token) == token = Open("li")
IsTitle(x) == x.reftype = "Title"

\* C20: the landmarks section contains exactly one link per content entry
\* whose ReferenceType is Title, in the same relative order as the content
\* entries, independent of the entries' levels; with no such entry (or no
\* entries at all) the landmarks list is empty.
C20_LandmarksAreTitles ==
    stage = "finished" =>
        LET links == SelectSeq(LandmarkTokens(NavWritten), IsLink)
            titles == SelectSeq(epub.contents, IsTitle)
        IN  /\ Len(links) = Len(titles)
            /\ \A k \in 1..Len(links) :
                  links[k] = Link("titlepage", titles[k].name, escape(titles[k].title))
            /\ Len(SelectSeq(LandmarkTokens(NavWritten), IsListItem)) = Len(links)
            /\ titles = <<>> =>
                  LandmarkTokens(NavWritten)
                      = <<Open("nav"), Open("ol"), Close("ol"), Close("nav"),
                          Close("body"), Close("html")>>

\* C20 witness: a finished build of a chapter and two title pages on different
\* levels, whose landmarks are the two title pages in order.
C20_Witness ==
    /\ stage = "finished"
    /\ [k \in 1..Len(epub.contents) |-> epub.contents[k].reftype]
          = <<"Text", "Title", "Title">>
    /\ LevelsOf(epub.contents) = <<1, 2, 1>>
    /\ [k \in 1..Len(epub.contents) |-> epub.contents[k].name] = <<"a", "b", "a">>
    /\ Len(SelectSeq(LandmarkTokens(NavWritten), IsLink)) = 2

(* ---- the package model: errors and frames ---- *)

\* the step is an add_content or add_resource call: the caller's list of calls
\* grew by it
AddStep == Len(calls') = Len(calls) + 1

\* C21: add_content and add_resource return an error if and only if the
\* Container Writer's add_entry fails; when they fail, the contents list, the
\* resources list and the identifier counter are all unchanged, and when they
\* succeed exactly one entry is appended to the corresponding list with the
\* next identifier.
C21_AddIsAtomic ==
    [][AddStep =>
        LET call == calls'[Len(calls')]
            entry == epub'.zip[Len(epub'.zip)]
        IN  /\ Len(epub'.zip) = Len(epub.zip) + 1
            /\ entry.call = "add_entry" /\ entry.name = call.name
            /\ (stage' = "failed") <=> ~entry.ok
            /\ ~entry.ok =>
                  /\ epub'.contents = epub.contents
                  /\ epub'.resources = epub.resources
                  /\ epub'.id_iter = epub.id_iter
            /\ entry.ok =>
                  /\ stage' = "open"
                  /\ epub'.id_iter = epub.id_iter + 1
                  /\ IF call.op = "add_content"
                     THEN /\ Len(epub'.contents) = Len(epub.contents) + 1
                          /\ SubSeq(epub'.contents, 1, Len(epub.contents)) = epub.contents
                          /\ epub'.contents[Len(epub'.contents)].id = epub.id_iter
                          /\ epub'.contents[Len(epub'.contents)].name = call.name
                          /\ epub'.resources = epub.resources
                     ELSE /\ Len(epub'.resources) = Len(epub.resources) + 1
                          /\ SubSeq(epub'.resources, 1, Len(epub.resources)) = epub.resources
                          /\ epub'.resources[Len(epub'.resources)].id = epub.id_iter
                          /\ epub'.resources[Len(epub'.resources)].name = call.name
                          /\ epub'.contents = epub.contents]_vars

\* C21 witness: an add_resource failed after an add_content had succeeded, and
\* the lists and the counter are those of the one entry.
C21_Witness ==
    /\ stage = "failed"
    /\ Len(calls) = 2 /\ calls[2].op = "add_resource"
    /\ Len(epub.zip) = 4 /\ ~epub.zip[4].ok
    /\ Len(epub.contents) = 1 /\ epub.resources = <<>> /\ epub.id_iter = 1

\* the Container Writer calls that finish made: those after the two of
\* Epub::new and the one of each add_* call
FinishCalls == SubSeq(epub.zip, Len(calls) + 3, Len(epub.zip))

\* C22: finish() abandons its sequence at the first Container Writer failure:
\* if writing nav.xhtml fails, content.opf is not written and flush is not
\* called; if writing content.opf fails, flush is not called; finish() returns
\* Ok only if nav.xhtml, content.opf and flush all succeeded, and the error is
\* returned to the caller rather than swallowed or retried.
C22_FinishAbandons ==
    LET made == FinishCalls
    IN  /\ made # <<>> =>
              /\ made[1].call = "add_entry" /\ made[1].name = "nav.xhtml"
              /\ ~made[1].ok => Len(made) = 1
              /\ made[1].ok =>
                    /\ Len(made) >= 2
                    /\ made[2].call = "add_entry" /\ made[2].name = "content.opf"
                    /\ ~made[2].ok => Len(made) = 2
                    /\ made[2].ok => Len(made) = 3 /\ made[3].call = "flush"
              /\ (\E k \in 1..Len(made) : ~made[k].ok) => stage = "failed"
              /\ stage \in {"finished", "failed"}
        /\ stage = "finished" <=>
              (Len(made) = 3 /\ \A k \in 1..3 : made[k].ok)

\* C22 witness: nav.xhtml was written, the write of content.opf failed, and
\* nothing was called after it.
C22_Witness ==
    /\ stage = "failed"
    /\ Len(FinishCalls) = 2
    /\ FinishCalls[1].ok /\ ~FinishCalls[2].ok
    /\ Len(epub.contents) = 1

\* a step leaves of the Epub everything but the given field as it was
OnlyFieldChanged(field) ==
    \A f \in DOMAIN epub : f # field => epub'[f] = epub[f]

\* C23: each setter overwrites only its own metadata field with the new value,
\* may be called any number of times with the last value winning, never
\* fails, and leaves the contents list, the resources list, the identifier
\* counter, the other metadata fields and the Container Writer unchanged.
C23_SettersFrame ==
    [][/\ \A x \in MetaTexts :
            /\ set_title(x) => (epub'.title = x /\ OnlyFieldChanged("title"))
            /\ set_author(x, <<"y">>) =>
                  (epub'.author = Some(<<x, <<"y">>>>) /\ OnlyFieldChanged("author"))
            /\ set_description(x) =>
                  (epub'.description = Some(x) /\ OnlyFieldChanged("description"))
            /\ set_source(x) => (epub'.source = Some(x) /\ OnlyFieldChanged("source"))
       /\ set_modified(MetaTime) =>
            (epub'.modified = Some(MetaTime) /\ OnlyFieldChanged("modified"))
       /\ \A d \in Directions :
            set_direction(d) => (epub'.direction = d /\ OnlyFieldChanged("direction"))
       /\ (Len(calls') = Len(calls) /\ stage = "open" /\ stage' = "open") =>
            /\ epub'.contents = epub.contents
            /\ epub'.resources = epub.resources
            /\ epub'.id_iter = epub.id_iter
            /\ epub'.zip = epub.zip]_vars

\* C23 witness: every one of the six fields has been set on an Epub that has a
\* content entry and a resource, and the build is still open.
C23_Witness ==
    /\ stage = "open"
    /\ epub.title = <<"T">> /\ epub.author = Some(<<TitleText, <<"y">>>>)
    /\ epub.modified = Some(MetaTime) /\ epub.description = Some(<<"T">>)
    /\ epub.source = Some(TitleText) /\ epub.direction = "Ltr"
    /\ Len(epub.contents) = 1 /\ Len(epub.resources) = 1 /\ epub.id_iter = 2

(* ---- make_epub: what the claims speak of ---- *)

Exited == make.pc \in {"return", "done"}

\* C24: in make_epub the output is promoted to its final name only on success:
\* the rename of the temporary file to the final name happens only after
\* Epub::finish has returned Ok (nav, content.opf written and flushed), and on
\* every error or interrupt exit of make_epub no file is created or replaced
\* under the final name.
C24_PromotedOnlyOnSuccess ==
    /\ [](files.final = "new" =>
            /\ stage = "finished"
            /\ Len(FinishCalls) = 3 /\ \A k \in 1..3 : FinishCalls[k].ok
            /\ make.result = "Ok")
    /\ [][files'.final # files.final =>
            /\ make.pc = "promote" /\ stage = "finished"
            /\ files'.final = "new" /\ make'.result = "Ok"]_vars
    /\ [][(files'.log # files.log /\ files'.log[Len(files'.log)].call = "rename") =>
            (make.pc = "promote" /\ stage = "finished")]_vars

\* C24 witness: a run whose Epub::finish returned Ok and whose promotion
\* failed has returned, the file under the final name being the one there was.
C24_Witness ==
    /\ make.pc = "done"
    /\ stage = "finished"
    /\ make.result = "OverWriteFail"
    /\ files.final = "blocked"

\* C25: the temporary file is released on every exit path of make_epub
\* (success, error, early return, interrupt): once make_epub has returned and
\* the TemporaryFile value has been dropped, no file remains under the
\* temporary name, including the path where TemporaryFile::finish was called
\* and its rename failed.
C25_TemporaryReleased ==
    (make.pc = "done" \/ temporary.state = "dropped") => ~files.temporary

RemoveFailed == \E k \in 1..Len(files.log) :
                    files.log[k].call = "remove_file" /\ ~files.log[k].ok

\* where the file does go: on every exit with a TemporaryFile value whose
\* removals all succeeded, the path where TemporaryFile::finish was called and
\* its rename failed included.
C25_ReleasedWhenOpenedAndRemoved ==
    (make.pc = "done" /\ temporary.state = "dropped" /\ ~RemoveFailed)
        => ~files.temporary

\* C26: TemporaryFile::finish overwrites an existing output: if the first
\* rename of the temporary file to the final name fails because a file with
\* the final name is in the way and a file removal succeeds, the retried
\* rename can succeed (it does when nothing else stops it) and finish returns
\* Ok with the built archive under the final name; finish does not delete the
\* built archive and then report OverWriteFail.
C26_OverwriteRetrySucceeds ==
    LET log == files.log
    IN  (/\ Len(log) = 3
         /\ log[1].call = "rename" /\ log[1].io /\ ~log[1].ok
         /\ log[2].call = "remove_file" /\ log[2].ok
         /\ log[3].call = "rename" /\ log[3].io) =>
            /\ log[3].ok
            /\ make.result = "Ok"
            /\ files.final = "new"

\* what TemporaryFile::finish does there instead: the file it removes is the
\* archive, the retried rename has nothing to rename, and the result is
\* OverWriteFail with the old file still under the final name.
C26_RetryNeverSucceeds ==
    (Len(files.log) >= 2 /\ files.log[2].call = "remove_file" /\ files.log[2].ok) =>
        /\ Len(files.log) = 3 /\ ~files.log[3].ok
        /\ make.result = "OverWriteFail"
        /\ ~files.temporary /\ files.final # "new"

\* the step is the call of Epub::finish
FinishStep == make.pc = "finish" /\ make'.pc # "finish"

\* C27 as claimed: the handler may set INTERRUPTED at any moment; if it is set
\* at any time before make_epub calls Epub::finish, make_epub returns
\* Error::Interrupted, Epub::finish is never called and no output file is
\* produced under the final name; the flag is never cleared once set.
C27_InterruptAborts ==
    /\ [][FinishStep => ~INTERRUPTED]_vars
    /\ [][(INTERRUPTED /\ make.pc \notin {"finish", "promote", "return", "done"}
             /\ make'.pc = "return") => make'.result = "Interrupted"]_vars
    /\ [](make.result = "Interrupted" => (FinishCalls = <<>> /\ files.final # "new"))
    /\ [][INTERRUPTED => INTERRUPTED']_vars

\* C27 as amended: the handler may set INTERRUPTED at any moment; if it is set
\* when make_epub loads it at the head of an episode's pass of the loop,
\* make_epub returns Error::Interrupted there, Epub::finish is never called
\* and no output file is produced under the final name; the flag is never
\* cleared once set.
C27_InterruptAbortsWhenLoaded ==
    /\ [][(INTERRUPTED /\ make.pc = "check" /\ make'.pc # "check") =>
            (make'.pc = "return" /\ make'.result = "Interrupted")]_vars
    /\ [](make.result = "Interrupted" =>
            /\ INTERRUPTED
            /\ FinishCalls = <<>> /\ stage = "open"
            /\ files.final # "new")
    /\ [][INTERRUPTED => INTERRUPTED']_vars

\* C27 witness: a run that was interrupted after its first episode has
\* returned Interrupted and left no file under the temporary name.
C27_Witness ==
    /\ make.pc = "done"
    /\ make.result = "Interrupted"
    /\ make.episodes = 2
    /\ Len(epub.contents) >= 2
    /\ ~files.temporary

\* the position of the last entry of level 1
LastTopLevel(contents) ==
    CHOOSE j \in 1..Len(contents) :
        contents[j].level = 1 /\ \A i \in (j + 1)..Len(contents) : contents[i].level # 1

\* C28: in every run of make_epub the sequence of levels passed to
\* add_content starts with 1 (the title page), contains only the values 1 and
\* 2, and never rises by more than 1 between consecutive content entries (a
\* level-2 episode is added only when a level-1 chapter page for its chapter
\* has been added before it with no level other than 2 in between), so the
\* toc built by finish() for any make_epub run is well-formed.
C28_MakeEpubLevels ==
    /\ [](LET levels == LevelsOf(epub.contents)
          IN  /\ levels # <<>> =>
                    (levels[1] = 1 /\ epub.contents[1].name = "title.xhtml")
              /\ \A k \in 1..Len(levels) : levels[k] \in {1, 2}
              /\ \A k \in 2..Len(levels) : levels[k] <= levels[k - 1] + 1
              /\ stage = "finished" => WellNested(NavWritten, 1, <<>>))
    /\ [][(Len(epub'.contents) = Len(epub.contents) + 1
             /\ epub'.contents[Len(epub'.contents)].level = 2) =>
            LET page == epub.contents[LastTopLevel(epub.contents)]
            IN  /\ make.episode.chapter # None
                /\ page.title = make.episode.chapter
                /\ page.name # "title.xhtml"]_vars

\* C28 witness: a finished run of two episodes of two chapters: the title
\* page, and a chapter page and an episode for each.
C28_Witness ==
    /\ stage = "finished"
    /\ LevelsOf(epub.contents) = <<1, 1, 2, 1, 2>>
    /\ [k \in 1..5 |-> epub.contents[k].name]
          = <<"title.xhtml", "0.xhtml", "1.xhtml", "2.xhtml", "3.xhtml">>

\* C29: the JSON tokenizer terminates on every finite input: each call of
\* Tokens::next returns after consuming finitely many characters (it asks
\* the iterator at most once per char of the input and once more), in
\* particular when the input ends inside a number literal that starts with
\* 1-9 (e.g. the whole input is "12") it returns the Number token and the
\* following call returns None.
C29_TokenizerTerminates ==
    /\ lexer.polls <= Len(lexer.input) + 1
    /\ (lexer.pc = "number" /\ lexer.polls = Len(lexer.input) + 1) =>
            lexer.pos <= Len(lexer.input)

\* what the number branch does at the end of the input: the pass changes
\* nothing but the count, and the call has not returned.
C29_NumberAtEndNeverReturns ==
    [][(lexer.pc = "number" /\ lexer.pos > Len(lexer.input)) =>
        lexer' = [lexer EXCEPT !.polls = @ + 1]]_vars

\* every call that returns has asked the iterator at most once per char and
\* once more, and an input that does not end inside such a number is read
\* to its end.
C29_OtherCallsReturn ==
    /\ lexer.pc = "ready" => lexer.polls <= Len(lexer.input) + 1
    /\ (lexer.pc = "number" /\ lexer.pos <= Len(lexer.input)) =>
            lexer.polls <= Len(lexer.input)

\* the registered media-type string of each MediaType
Registered(media_type) ==
    CASE media_type = "Css" -> "text/css"
      [] media_type = "Xhtml" -> "application/xhtml+xml"
      [] media_type = "Jpg" -> "image/jpeg"
      [] media_type = "Png" -> "image/png"
      [] media_type = "Gif" -> "image/gif"

\* the strings that begin with "image/"
ImageStrings == {"image/jpeg", "image/png", "image/gif"}

\* the entries in the order of the manifest
ManifestEntries(e) ==
    [k \in 1..Len(e.contents) |-> [media_type |-> e.contents[k].media_type,
                                   reftype |-> e.contents[k].reftype]]
        \o [k \in 1..Len(e.resources) |-> [media_type |-> e.resources[k].media_type,
                                            reftype |-> e.resources[k].reftype]]

\* C30: every MediaType renders in the manifest as its registered media-type
\* string: Css -> text/css, Xhtml -> application/xhtml+xml, Jpg -> image/jpeg,
\* Png -> image/png, Gif -> image/gif; so every image resource added by
\* make_epub gets a media-type beginning with "image/".
C30_RegisteredMediaTypes ==
    stage = "finished" =>
        LET manifest == OpfWritten.manifest
            entries == ManifestEntries(epub)
        IN  /\ Len(manifest) = Len(entries)
            /\ \A k \in 1..Len(manifest) :
                  /\ manifest[k].media_type = Registered(entries[k].media_type)
                  /\ entries[k].reftype = "Image" =>
                        manifest[k].media_type \in ImageStrings

\* C30 holds of the runs that add no GIF image (the complement of the failing
\* inputs of C30).
C30_RegisteredMediaTypesButGif ==
    (stage = "finished"
        /\ \A k \in 1..Len(epub.resources) : epub.resources[k].media_type # "Gif") =>
        LET manifest == OpfWritten.manifest
            entries == ManifestEntries(epub)
        IN  /\ Len(manifest) = Len(entries)
            /\ \A k \in 1..Len(manifest) :
                  /\ manifest[k].media_type = Registered(entries[k].media_type)
                  /\ entries[k].reftype = "Image" =>
                        manifest[k].media_type \in ImageStrings

====
